---------------------------- MODULE Spec2Model ----------------------------
(***************************************************************************)
(* A model of the gdrive_path library (marcopaganini/godrive): the path    *)
(* resolver Stat, the mutators Mkdir / Move / insert built on it, the two  *)
(* TTL caches and the retrying invoker around every remote call.           *)
(*                                                                         *)
(* Strings.  A path string is a sequence of tokens: the separator "/" or   *)
(* a title (a maximal run of non-separator characters, kept atomic).  No   *)
(* two titles are adjacent, so every Go string over the titles has exactly *)
(* one such sequence: "" is << >>, "/" is <<"/">>, "/a//b" is              *)
(* <<"/","a","/","/","b">>.  A title is a TLA+ string, "" the empty one.   *)
(*                                                                         *)
(* Remote store.  Google Drive is a sequence of objects; an object's id is *)
(* its index.  Object 1 is the root folder, which the alias "root" of the  *)
(* Drive API names (RootAlias here).  A remote invocation that fails       *)
(* leaves the store unchanged.                                             *)
(*                                                                         *)
(* Time is in whole seconds (the retry sleeps are 1 s, 2 s, 3 s and the    *)
(* cache TTL is 60 s).                                                     *)
(***************************************************************************)
EXTENDS Integers, Sequences, FiniteSets, TLC

(***************************************************************************)
(* Program constants                                                       *)
(***************************************************************************)
NUM_TRIES == 3

CACHE_TTL_SECONDS == 60

SLEEP_UNIT_MS == 1000

MS_PER_SECOND == 1000

HTTP_5XX_LOW == 500

HTTP_5XX_HIGH == 599

DRIVE_TMP_FOLDER == <<"tmp">>

Sep == "/"

(***************************************************************************)
(* Bounds of the model                                                     *)
(***************************************************************************)
MaxOps == 3

MaxObjects == 5

MaxTicks == 1

PageSize == 2

(***************************************************************************)
(* Remote outcomes: what one invocation of a Do() function returns.        *)
(*   err = FALSE               a result, nil error                         *)
(*   err, http, code           a *googleapi.Error carrying an HTTP status  *)
(*   err, ~http                any other error (no status code)            *)
(***************************************************************************)
Ok == [err |-> FALSE, http |-> FALSE, code |-> 0]

HttpErr(c) == [err |-> TRUE, http |-> TRUE, code |-> c]

NetErr == [err |-> TRUE, http |-> FALSE, code |-> 0]

(***************************************************************************)
(* util.go: the retrying invoker.  outs is what the successive invocations *)
(* of fn return (a result once outs is used up).  The loop of              *)
(* driveFileOpRetry and driveChildListOpRetry is the same.                 *)
(***************************************************************************)
IsRetryable(o) == o.http /\ (o.code >= HTTP_5XX_LOW \/ o.code <= HTTP_5XX_HIGH)

SleepAfter(try) == SLEEP_UNIT_MS * try

RECURSIVE RetryLoop(_, _, _, _, _)
RetryLoop(try, outs, inv, sleeps, lastErr) ==
    IF try > NUM_TRIES
    THEN [ok |-> FALSE, err |-> lastErr, inv |-> inv, sleeps |-> sleeps]
    ELSE LET o    == IF outs = << >> THEN Ok ELSE Head(outs)
             rest == IF outs = << >> THEN << >> ELSE Tail(outs)
         IN IF o.err
            THEN IF IsRetryable(o)
                 THEN RetryLoop(try + 1, rest, Append(inv, o),
                                Append(sleeps, SleepAfter(try)), o)
                 ELSE [ok |-> FALSE, err |-> o, inv |-> Append(inv, o),
                       sleeps |-> sleeps]
            ELSE [ok |-> TRUE, err |-> Ok, inv |-> Append(inv, o),
                  sleeps |-> sleeps]

\* driveFileOpRetry with a loop that starts at try 0: one attempt too many
driveFileOpRetry_FromZero(outs) == RetryLoop(0, outs, << >>, << >>, Ok)

driveFileOpRetry(outs) == RetryLoop(1, outs, << >>, << >>, Ok)

driveChildListOpRetry(outs) == RetryLoop(1, outs, << >>, << >>, Ok)

RECURSIVE SumSeq(_)
SumSeq(q) == IF q = << >> THEN 0 ELSE Head(q) + SumSeq(Tail(q))


(***************************************************************************)
(* Strings (Go's strings.Split and strings.Join on the separator "/")      *)
(***************************************************************************)
RECURSIVE StrSplit(_)
StrSplit(p) ==
    IF p = << >> THEN <<"">>
    ELSE IF Head(p) = Sep THEN <<"">> \o StrSplit(Tail(p))
    ELSE <<Head(p)>> \o Tail(StrSplit(Tail(p)))

RECURSIVE StrJoin(_)
StrJoin(elems) ==
    IF elems = << >> THEN << >>
    ELSE IF Len(elems) = 1 THEN (IF elems[1] = "" THEN << >> ELSE <<elems[1]>>)
    ELSE (IF elems[1] = "" THEN << >> ELSE <<elems[1]>>)
         \o <<Sep>> \o StrJoin(Tail(elems))

(***************************************************************************)
(* util.go: splitPath                                                      *)
(***************************************************************************)
\* splitPath as the earlier revision had it: no "/" for a single element
splitPath_NoRoot(pathName) ==
    LET ret == SelectSeq(StrSplit(pathName), LAMBDA e : e # "")
        n   == Len(ret)
    IN IF n = 0 THEN [dir |-> << >>, file |-> "", path |-> << >>]
       ELSE IF n = 1 THEN [dir |-> << >>, file |-> ret[1], path |-> <<ret[1]>>]
       ELSE [dir  |-> StrJoin(SubSeq(ret, 1, n - 1)),
             file |-> ret[n],
             path |-> StrJoin(ret)]

splitPath(pathName) ==
    LET ret == SelectSeq(StrSplit(pathName), LAMBDA e : e # "")
        n   == Len(ret)
    IN IF n = 0 THEN [dir |-> << >>, file |-> "", path |-> << >>]
       ELSE IF n = 1
       THEN [dir |-> <<Sep>>, file |-> ret[1], path |-> <<Sep>> \o <<ret[1]>>]
       ELSE [dir  |-> StrJoin(SubSeq(ret, 1, n - 1)),
             file |-> ret[n],
             path |-> StrJoin(ret)]

(***************************************************************************)
(* Times and their RFC 3339 strings.  A time.Time is [sec, nsec]; the      *)
(* string time.RFC3339Nano gives for it is [sec, frac], frac being the     *)
(* digits after the decimal point: the nine digits of nsec without their   *)
(* trailing zeros, none when nsec is 0.                                    *)
(***************************************************************************)
NS_PER_SECOND == 1000000000

NSEC_DIGITS == 9

RECURSIVE Digits(_, _)
Digits(n, width) ==
    IF width = 0 THEN << >>
    ELSE Append(Digits(n \div 10, width - 1), n % 10)

RECURSIVE StripZeros(_)
StripZeros(ds) ==
    IF ds = << >> THEN << >>
    ELSE IF ds[Len(ds)] = 0 THEN StripZeros(SubSeq(ds, 1, Len(ds) - 1))
    ELSE ds

RECURSIVE FracValue(_, _)
FracValue(ds, width) ==
    IF width = 0 THEN 0
    ELSE IF ds = << >> THEN 0
    ELSE Head(ds) * (10 ^ (width - 1)) + FracValue(Tail(ds), width - 1)

Truncate(tt) == [sec |-> tt.sec, nsec |-> 0]

AddNanosecond(tt) ==
    IF tt.nsec + 1 = NS_PER_SECOND THEN [sec |-> tt.sec + 1, nsec |-> 0]
    ELSE [sec |-> tt.sec, nsec |-> tt.nsec + 1]

FormatRFC3339Nano(tt) ==
    [sec |-> tt.sec, frac |-> StripZeros(Digits(tt.nsec, NSEC_DIGITS))]

ParseRFC3339Nano(str) ==
    [sec |-> str.sec, nsec |-> FracValue(str.frac, NSEC_DIGITS)]

\* the string "" where a date is expected
BlankDate == [sec |-> -1, frac |-> << >>]

\* the date the store gives an object by itself
ServerDate == FormatRFC3339Nano([sec |-> 0, nsec |-> 0])

\* util.go: ModifiedDate
ModifiedDate(driveFile) ==
    IF driveFile.modifiedDate = BlankDate
    THEN [err |-> TRUE, t |-> [sec |-> 0, nsec |-> 0]]
    ELSE [err |-> FALSE,
          t |-> Truncate(ParseRFC3339Nano(driveFile.modifiedDate))]

(***************************************************************************)
(* gdrive.go: the object cache (cacheAdd, cacheGet, cacheDel).  A cache is *)
(* a function from the keys it holds to [obj, timestamp]; now stands for   *)
(* time.Now().  cacheGet returns the lookup and the cache it leaves.       *)
(***************************************************************************)
NilEntry == [obj |-> [id |-> 0], timestamp |-> 0]

cacheAdd(cache, drivePath, obj, now_) ==
    (drivePath :> [obj |-> obj, timestamp |-> now_]) @@ cache

cacheDel(cache, drivePath) ==
    [k \in DOMAIN cache \ {drivePath} |-> cache[k]]

\* IsExpired with the entry expiring at the TTL, not after it
IsExpired_AtTTL(item, now_) == now_ >= item.timestamp + CACHE_TTL_SECONDS

IsExpired(item, now_) == now_ > item.timestamp + CACHE_TTL_SECONDS

\* cacheGet that stamps the entry it returns with the time of the lookup
cacheGet_Touch(cache, drivePath, now_) ==
    IF drivePath \in DOMAIN cache
    THEN IF IsExpired(cache[drivePath], now_)
         THEN [found |-> FALSE, cache |-> cacheDel(cache, drivePath)]
         ELSE [found |-> TRUE, obj |-> cache[drivePath].obj,
               cache |-> [cache EXCEPT ![drivePath].timestamp = now_]]
    ELSE [found |-> FALSE, cache |-> cache]

cacheGet(cache, drivePath, now_) ==
    IF drivePath \in DOMAIN cache
    THEN IF IsExpired(cache[drivePath], now_)
         THEN [found |-> FALSE, cache |-> cacheDel(cache, drivePath)]
         ELSE [found |-> TRUE, obj |-> cache[drivePath].obj, cache |-> cache]
    ELSE [found |-> FALSE, cache |-> cache]

EmptyCache == [k \in {} |-> NilEntry]

(***************************************************************************)
(* The remote store and the values the Drive API returns                   *)
(***************************************************************************)
RootAlias == 0

RootId == 1

RootObject == [title |-> "", folder |-> TRUE, parents |-> {}, trashed |-> FALSE,
               modifiedDate |-> ServerDate]

NilFile == [id |-> 0, title |-> "", folder |-> FALSE, parents |-> {},
            trashed |-> FALSE, modifiedDate |-> BlankDate]

ResolveId(fileId) == IF fileId = RootAlias THEN RootId ELSE fileId

\* the *drive.File the API returns for an object: a snapshot of it
FileOf(st, id) ==
    [id |-> id, title |-> st[id].title, folder |-> st[id].folder,
     parents |-> st[id].parents, trashed |-> st[id].trashed,
     modifiedDate |-> st[id].modifiedDate]

\* a *drive.ChildReference
ChildRef(id) == [id |-> id]

IsDir(driveFile) == driveFile.folder

(***************************************************************************)
(* The state a library call works on: the store, the two caches, the       *)
(* clock, the log of remote invocations made so far, the store as each     *)
(* successful insert, patch or trash of the call left it (hist), and the   *)
(* outcomes the coming invocations of one kind of remote call will have.   *)
(***************************************************************************)
NoFaults == [kind |-> "none", outs |-> << >>]

MkState(st, fc, cc, now_, faults) ==
    [store |-> st, fc |-> fc, cc |-> cc, now |-> now_, log |-> << >>,
     hist |-> << >>, faults |-> faults, draws |-> 0]

Res(s, err, val) == [s |-> s, err |-> err, val |-> val]

\* One retried remote call of the given kind on object id: the invocations
\* are logged, the sleeps pass, the outcomes are used up.
RemoteDone(s, kind, id, hit, plan, run) ==
    [s   |-> [s EXCEPT
                !.faults = IF hit
                           THEN [kind |-> s.faults.kind,
                                 outs |-> IF Len(run.inv) >= Len(plan) THEN << >>
                                          ELSE SubSeq(plan, Len(run.inv) + 1, Len(plan))]
                           ELSE @,
                !.now    = @ + (SumSeq(run.sleeps) \div MS_PER_SECOND),
                !.log    = @ \o [i \in 1..Len(run.inv) |->
                                  [kind |-> kind, id |-> ResolveId(id),
                                   ok |-> ~run.inv[i].err]]],
     ok  |-> run.ok,
     err |-> run.err]

RemotePlan(s, kind, id, hit, plan) ==
    RemoteDone(s, kind, id, hit, plan,
               IF kind = "list" THEN driveChildListOpRetry(plan)
                                ELSE driveFileOpRetry(plan))

Remote(s, kind, id) ==
    RemotePlan(s, kind, id, s.faults.kind \in {kind, "any"},
               IF s.faults.kind \in {kind, "any"} THEN s.faults.outs ELSE << >>)

(***************************************************************************)
(* gdrive.go: the Gdrive primitives.  XDone(r, ...) is what X does once    *)
(* its retried remote call has returned r.                                 *)
(***************************************************************************)
GdriveFilesGetDone(r, fileId) ==
    IF r.ok THEN Res(r.s, "", FileOf(r.s.store, ResolveId(fileId)))
            ELSE Res(r.s, "remote", NilFile)

GdriveFilesGet(s, fileId) == GdriveFilesGetDone(Remote(s, "get", fileId), fileId)

\* A query: a title ("*" for any), a mime filter, and whether it holds
\* "trashed = false".  The queries of Stat all hold it.
Query(title, mime) == [title |-> title, mime |-> mime, live |-> TRUE]

Matches(st, id, parentId, query) ==
    /\ ResolveId(parentId) \in st[id].parents
    /\ query.live => ~st[id].trashed
    /\ query.title \in {"*", st[id].title}
    /\ \/ query.mime = "any"
       \/ query.mime = "folder" /\ st[id].folder
       \/ query.mime = "nonfolder" /\ ~st[id].folder

RECURSIVE MatchingFrom(_, _, _, _)
MatchingFrom(st, id, parentId, query) ==
    IF id > Len(st) THEN << >>
    ELSE (IF Matches(st, id, parentId, query) THEN <<ChildRef(id)>> ELSE << >>)
         \o MatchingFrom(st, id + 1, parentId, query)

\* the loop over the pages of one listing: items are the matches not yet
\* returned, ret the ones collected
RECURSIVE ListPages(_, _, _, _)
\* the loop returning the pages it has when the request for one fails
ListPagesDone_KeepFetched(r, parentId, items, ret, k) ==
    IF ~r.ok THEN Res(r.s, "remote", ret)
    ELSE IF k = Len(items) THEN Res(r.s, "", ret \o items)
    ELSE ListPages(r.s, parentId, SubSeq(items, k + 1, Len(items)),
                   ret \o SubSeq(items, 1, k))

ListPagesDone(r, parentId, items, ret, k) ==
    IF ~r.ok THEN Res(r.s, "remote", << >>)
    ELSE IF k = Len(items) THEN Res(r.s, "", ret \o items)
    ELSE ListPages(r.s, parentId, SubSeq(items, k + 1, Len(items)),
                   ret \o SubSeq(items, 1, k))

ListPages(s, parentId, items, ret) ==
    ListPagesDone(Remote(s, "list", parentId), parentId, items, ret,
                  IF Len(items) < PageSize THEN Len(items) ELSE PageSize)

GdriveChildrenList(s, parentId, query) ==
    ListPages(s, parentId, MatchingFrom(s.store, 1, parentId, query), << >>)

\* (the log calls the insert of a folder "insert", that of a file "upload")
GdriveFilesInsertDone(r, st) ==
    IF r.ok THEN Res([r.s EXCEPT !.store = st, !.hist = Append(@, st)],
                     "", FileOf(st, Len(st)))
            ELSE Res(r.s, "remote", NilFile)

GdriveFilesInsert(s, title, parentId, folder) ==
    GdriveFilesInsertDone(
        Remote(s, IF folder THEN "insert" ELSE "upload", parentId),
        Append(s.store, [title |-> title, folder |-> folder,
                         parents |-> {ResolveId(parentId)}, trashed |-> FALSE,
                         modifiedDate |-> ServerDate]))

GdriveFilesPatchDone(r, st, fileId) ==
    IF r.ok THEN Res([r.s EXCEPT !.store = st, !.hist = Append(@, st)],
                     "", FileOf(st, fileId))
            ELSE Res(r.s, "remote", NilFile)

GdriveFilesPatch(s, fileId, title, modifiedDate, addParentIds, removeParentIds) ==
    GdriveFilesPatchDone(
        Remote(s, "patch", fileId),
        [s.store EXCEPT
           ![fileId].title   = IF title # "" THEN title ELSE @,
           ![fileId].modifiedDate =
                IF modifiedDate # BlankDate THEN modifiedDate ELSE @,
           ![fileId].parents = (@ \ removeParentIds) \cup addParentIds],
        fileId)

GdriveFilesTrashDone(r, st, fileId) ==
    IF r.ok THEN Res([r.s EXCEPT !.store = st, !.hist = Append(@, st)],
                     "", FileOf(st, fileId))
            ELSE Res(r.s, "remote", NilFile)

GdriveFilesTrash(s, fileId) ==
    GdriveFilesTrashDone(Remote(s, "trash", fileId),
                         [s.store EXCEPT ![fileId].trashed = TRUE], fileId)

(***************************************************************************)
(* error.go                                                                *)
(***************************************************************************)
\* IsObjectNotFound true of every error
IsObjectNotFound_AnyError(err) == err # ""

\* true of a *GdrivePathError whose ObjectNotFound is set, which only the two
\* zero-match returns of Stat build
IsObjectNotFound(err) == err = "notfound"

\* fmt.Errorf("...: %v", err): a new error that carries only the text of the
\* error it was given, so never a *GdrivePathError
Errorf(err) == "wrapped"

(***************************************************************************)
(* gdrive.go: Stat.  The function is cut at its remote calls: each         *)
(* operator takes what the call before it returned.                        *)
(***************************************************************************)
RECURSIVE StatDirs(_, _, _, _)
\* the folder listing of element idx returned dirs
StatDirsFolders(dirs, subdirs, idx, parent, ppath) ==
    IF dirs.err # "" THEN Res(dirs.s, dirs.err, parent)
    ELSE IF Len(dirs.val) = 0 THEN Res(dirs.s, "notfound", parent)
    ELSE IF Len(dirs.val) > 1 THEN Res(dirs.s, "dup", parent)
    ELSE StatDirs([dirs.s EXCEPT
                     !.cc = cacheAdd(@, ppath, dirs.val[1], dirs.s.now)],
                  subdirs, idx + 1, dirs.val[1].id)

\* StatDirsFiles without the test for a file in the path
StatDirsFiles_NoFileTest(files, subdirs, idx, parent, ppath) ==
    IF files.err # "" THEN Res(files.s, files.err, parent)
    ELSE StatDirsFolders(
             GdriveChildrenList(files.s, parent, Query(subdirs[idx], "folder")),
             subdirs, idx, parent, ppath)

\* the non-folder listing of element idx returned files
StatDirsFiles(files, subdirs, idx, parent, ppath) ==
    IF files.err # "" THEN Res(files.s, files.err, parent)
    ELSE IF Len(files.val) # 0 THEN Res(files.s, "notdir", parent)
    ELSE StatDirsFolders(
             GdriveChildrenList(files.s, parent, Query(subdirs[idx], "folder")),
             subdirs, idx, parent, ppath)

\* the partial path ppath of element idx was looked up in the child cache
\* StatDirsCached that lists the element whatever childcache holds
StatDirsCached_AlwaysList(child, s, subdirs, idx, parent, ppath) ==
    StatDirsFiles(
        GdriveChildrenList([s EXCEPT !.cc = child.cache], parent,
                           Query(subdirs[idx], "nonfolder")),
        subdirs, idx, parent, ppath)

StatDirsCached(child, s, subdirs, idx, parent, ppath) ==
    IF child.found
    THEN StatDirs([s EXCEPT !.cc = child.cache], subdirs, idx + 1, child.obj.id)
    ELSE StatDirsFiles(
             GdriveChildrenList([s EXCEPT !.cc = child.cache], parent,
                                Query(subdirs[idx], "nonfolder")),
             subdirs, idx, parent, ppath)

\* the loop over the directory elements, from element idx (1-based)
StatDirs(s, subdirs, idx, parent) ==
    IF idx > Len(subdirs) THEN Res(s, "", parent)
    ELSE StatDirsCached(
             cacheGet(s.cc, StrJoin(SubSeq(subdirs, 1, idx)), s.now),
             s, subdirs, idx, parent, StrJoin(SubSeq(subdirs, 1, idx)))

\* StatLeafDone without the test for more than one child
StatLeafDone_FirstOfMany(children, parent) ==
    IF children.err # "" THEN Res(children.s, children.err, parent)
    ELSE IF Len(children.val) = 0 THEN Res(children.s, "notfound", parent)
    ELSE Res(children.s, "", children.val[1].id)

\* the listing of the last element returned children
StatLeafDone(children, parent) ==
    IF children.err # "" THEN Res(children.s, children.err, parent)
    ELSE IF Len(children.val) = 0 THEN Res(children.s, "notfound", parent)
    ELSE IF Len(children.val) > 1 THEN Res(children.s, "dup", parent)
    ELSE Res(children.s, "", children.val[1].id)

\* StatLeaf that looks for folders only
StatLeaf_FoldersOnly(s, filename, parent) ==
    IF filename = "" THEN Res(s, "", parent)
    ELSE StatLeafDone(GdriveChildrenList(s, parent, Query(filename, "folder")),
                      parent)

\* the lookup of the last element under parent
StatLeaf(s, filename, parent) ==
    IF filename = "" THEN Res(s, "", parent)
    ELSE StatLeafDone(GdriveChildrenList(s, parent, Query(filename, "any")),
                      parent)

\* StatGetDone without the cacheAdd
StatGetDone_NoCacheAdd(ret, drivePath) == ret

\* StatGetDone caching what the final get returned, error or not
StatGetDone_AlwaysAdd(ret, drivePath) ==
    Res([ret.s EXCEPT !.fc = cacheAdd(@, drivePath, ret.val, ret.s.now)],
        ret.err, ret.val)

\* the final get returned ret
StatGetDone(ret, drivePath) ==
    IF ret.err = ""
    THEN Res([ret.s EXCEPT !.fc = cacheAdd(@, drivePath, ret.val, ret.s.now)],
             "", ret.val)
    ELSE ret

\* the last element resolved to f.val
StatLeafResolved(f, drivePath) ==
    IF f.err # "" THEN Res(f.s, f.err, NilFile)
    ELSE StatGetDone(GdriveFilesGet(f.s, f.val), drivePath)

\* the directory elements resolved to d.val
StatDirsResolved(d, sp) ==
    IF d.err # "" THEN Res(d.s, d.err, NilFile)
    ELSE StatLeafResolved(StatLeaf(d.s, sp.file, d.val), sp.path)

\* the path was split into sp
StatSplit(s, sp) ==
    IF sp.path = << >> THEN Res(s, "blank", NilFile)
    ELSE StatDirsResolved(
             IF sp.dir # <<Sep>>
             THEN StatDirs(s, StrSplit(sp.dir), 1, RootAlias)
             ELSE Res(s, "", RootAlias),
             sp)

\* the file cache was looked up for drivePath
StatCached(cached, s, drivePath) ==
    IF cached.found THEN Res([s EXCEPT !.fc = cached.cache], "", cached.obj)
    ELSE IF drivePath = <<Sep>>
    THEN GdriveFilesGet([s EXCEPT !.fc = cached.cache], RootAlias)
    ELSE StatSplit([s EXCEPT !.fc = cached.cache], splitPath(drivePath))

Stat(s, drivePath) ==
    StatCached(cacheGet(s.fc, drivePath, s.now), s, drivePath)

\* MkdirInserted without the cacheAdd
MkdirInserted_NoCacheAdd(ins, drivePath) ==
    IF ins.err # "" THEN Res(ins.s, ins.err, NilFile) ELSE ins

(***************************************************************************)
(* path.go: Mkdir                                                          *)
(***************************************************************************)
MkdirInserted(ins, drivePath) ==
    IF ins.err # "" THEN Res(ins.s, ins.err, NilFile)
    ELSE Res([ins.s EXCEPT !.fc = cacheAdd(@, drivePath, ins.val, ins.s.now)],
             "", ins.val)

\* MkdirParent that creates the folder under the root when the parent
\* directory does not resolve
MkdirParent_UnderRoot(par, sp) ==
    MkdirInserted(GdriveFilesInsert(par.s, sp.file,
                                    IF par.err # "" THEN RootAlias ELSE par.val.id,
                                    TRUE),
                  sp.path)

\* the parent directory resolved to par.val
MkdirParent(par, sp) ==
    IF par.err # "" THEN Res(par.s, par.err, NilFile)
    ELSE MkdirInserted(GdriveFilesInsert(par.s, sp.file, par.val.id, TRUE),
                       sp.path)

\* MkdirStatted that creates the folder even when Stat found the path
MkdirStatted_AlwaysCreate(driveFile, sp) ==
    IF driveFile.err # "" /\ ~IsObjectNotFound(driveFile.err)
    THEN Res(driveFile.s, driveFile.err, NilFile)
    ELSE MkdirParent(
             IF sp.dir = << >>
             THEN Res(driveFile.s, "", [NilFile EXCEPT !.id = RootAlias])
             ELSE Stat(driveFile.s, sp.dir),
             sp)

\* MkdirStatted that takes every error of Stat for ObjectNotFound
MkdirStatted_AnyErrorCreates(driveFile, sp) ==
    IF driveFile.err = "" THEN driveFile
    ELSE MkdirParent(
             IF sp.dir = << >>
             THEN Res(driveFile.s, "", [NilFile EXCEPT !.id = RootAlias])
             ELSE Stat(driveFile.s, sp.dir),
             sp)

\* the Stat of the path itself returned driveFile
MkdirStatted(driveFile, sp) ==
    IF driveFile.err # "" /\ ~IsObjectNotFound(driveFile.err)
    THEN Res(driveFile.s, driveFile.err, NilFile)
    ELSE IF ~IsObjectNotFound(driveFile.err) THEN driveFile
    ELSE MkdirParent(
             IF sp.dir = << >>
             THEN Res(driveFile.s, "", [NilFile EXCEPT !.id = RootAlias])
             ELSE Stat(driveFile.s, sp.dir),
             sp)

MkdirSplit(s, sp) ==
    IF sp.path = << >> THEN Res(s, "blank", NilFile)
    ELSE MkdirStatted(Stat(s, sp.path), sp)

Mkdir(s, drivePath) == MkdirSplit(s, splitPath(drivePath))

(***************************************************************************)
(* path.go: Move                                                           *)
(***************************************************************************)
\* MovePatched without the cacheDel of the source path
MovePatched_NoCacheDel(driveFile, src, dst) ==
    IF driveFile.err # ""
    THEN Res(driveFile.s, Errorf(driveFile.err), NilFile)
    ELSE Res([driveFile.s EXCEPT
                !.fc = cacheAdd(@, dst.path, driveFile.val, driveFile.s.now)],
             "", driveFile.val)

MovePatched(driveFile, src, dst) ==
    IF driveFile.err # ""
    THEN Res([driveFile.s EXCEPT !.fc = cacheDel(@, src.path)],
             Errorf(driveFile.err), NilFile)
    ELSE Res([driveFile.s EXCEPT
                !.fc = cacheAdd(cacheDel(@, src.path), dst.path, driveFile.val,
                                driveFile.s.now)],
             "", driveFile.val)

\* the destination is free (s has no object at dst any more)
MovePatch(s, src, dst, srcParentId, srcId, dstDirId) ==
    MovePatched(GdriveFilesPatch(s, srcId, dst.file, BlankDate, {dstDirId},
                                 {srcParentId}),
                src, dst)

\* MoveTrashed going on to the patch whatever the trash returned
MoveTrashed_IgnoreError(trash, src, dst, srcParentId, srcId, dstDirId) ==
    MovePatch([trash.s EXCEPT !.fc = cacheDel(@, dst.path)],
              src, dst, srcParentId, srcId, dstDirId)

MoveTrashed(trash, src, dst, srcParentId, srcId, dstDirId) ==
    IF trash.err # "" THEN Res(trash.s, Errorf(trash.err), NilFile)
    ELSE MovePatch([trash.s EXCEPT !.fc = cacheDel(@, dst.path)],
                   src, dst, srcParentId, srcId, dstDirId)

\* the Stat of the destination path returned dstFileObj
MoveDstStatted(dstFileObj, src, dst, srcParentId, srcId, dstDirId) ==
    IF dstFileObj.err # "" /\ ~IsObjectNotFound(dstFileObj.err)
    THEN Res(dstFileObj.s, dstFileObj.err, NilFile)
    ELSE IF ~IsObjectNotFound(dstFileObj.err)
    THEN MoveTrashed(GdriveFilesTrash(dstFileObj.s, dstFileObj.val.id),
                     src, dst, srcParentId, srcId, dstDirId)
    ELSE MovePatch(dstFileObj.s, src, dst, srcParentId, srcId, dstDirId)

MoveDstDirStatted(dstDirObj, src, dst, srcParentId, srcId) ==
    IF dstDirObj.err # "" THEN Res(dstDirObj.s, dstDirObj.err, NilFile)
    ELSE MoveDstStatted(Stat(dstDirObj.s, dst.path), src, dst, srcParentId,
                        srcId, dstDirObj.val.id)

MoveSrcStatted(srcObj, src, dst, srcParentId) ==
    IF srcObj.err # "" THEN Res(srcObj.s, srcObj.err, NilFile)
    ELSE MoveDstDirStatted(Stat(srcObj.s, dst.dir), src, dst, srcParentId,
                           srcObj.val.id)

MoveSrcParentStatted(srcParentObj, src, dst) ==
    IF srcParentObj.err # "" THEN Res(srcParentObj.s, srcParentObj.err, NilFile)
    ELSE MoveSrcStatted(Stat(srcParentObj.s, src.path), src, dst,
                        srcParentObj.val.id)

MoveSplit(s, src, dst) ==
    IF src.path = << >> \/ dst.path = << >> THEN Res(s, "blank", NilFile)
    ELSE MoveSrcParentStatted(Stat(s, src.dir), src, dst)

Move(s, srcPath, dstPath) == MoveSplit(s, splitPath(srcPath), splitPath(dstPath))

(***************************************************************************)
(* path.go: insert, Insert, InsertInPlace.  tmpFile is the name            *)
(* "temp-%d-%d" that rand.Int31 gives the temporary object.                *)
(***************************************************************************)
\* the object is at its final place, moved.val
insertPlaced(moved, endPath) ==
    IF moved.err # "" THEN Res(moved.s, moved.err, NilFile)
    ELSE Res([moved.s EXCEPT !.fc = cacheAdd(@, endPath, moved.val, moved.s.now)],
             "", moved.val)

\* the upload returned ins
insertUploaded(ins, dstPath, outPath, inplace) ==
    IF ins.err # "" THEN Res(ins.s, Errorf(ins.err), NilFile)
    ELSE IF inplace THEN insertPlaced(ins, outPath)
    ELSE insertPlaced(Move(ins.s, outPath, dstPath), dstPath)

insertUpload(s, dstPath, outFile, outPath, parentId, inplace) ==
    insertUploaded(GdriveFilesInsert(s, outFile, parentId, FALSE),
                   dstPath, outPath, inplace)

insertTrashed(trash, dstPath, outFile, outPath, parentId, inplace) ==
    IF trash.err # "" THEN Res(trash.s, Errorf(trash.err), NilFile)
    ELSE insertUpload(trash.s, dstPath, outFile, outPath, parentId, inplace)

\* the Stat of the output path returned outFileObj
insertOutStatted(outFileObj, dstPath, outFile, outPath, parentId, inplace) ==
    IF outFileObj.err # "" /\ ~IsObjectNotFound(outFileObj.err)
    THEN Res(outFileObj.s, outFileObj.err, NilFile)
    ELSE IF ~IsObjectNotFound(outFileObj.err)
    THEN insertTrashed(GdriveFilesTrash(outFileObj.s, outFileObj.val.id),
                       dstPath, outFile, outPath, parentId, inplace)
    ELSE insertUpload(outFileObj.s, dstPath, outFile, outPath, parentId, inplace)

\* rand.Int31 gives the next temporary name of the sequence
Drawn(s) == [s EXCEPT !.draws = @ + 1]

\* the directory to upload into resolved to parent.val; the temporary name
\* is drawn once the temporary folder is there
insertParent(parent, dstPath, outFile, outPath, inplace) ==
    IF parent.err # ""
    THEN Res(parent.s, IF inplace THEN Errorf(parent.err) ELSE parent.err,
             NilFile)
    ELSE insertOutStatted(Stat(IF inplace THEN parent.s ELSE Drawn(parent.s),
                               outPath),
                          dstPath, outFile, outPath, parent.val.id, inplace)

insertSplit(s, dstPath, sp, tmpFile, inplace) ==
    IF inplace
    THEN insertParent(Stat(s, sp.dir), sp.path, sp.file, sp.path, inplace)
    ELSE insertParent(Mkdir(s, DRIVE_TMP_FOLDER), dstPath, tmpFile,
                      DRIVE_TMP_FOLDER \o <<Sep>> \o <<tmpFile>>, inplace)

insert(s, dstPath, tmpFile, inplace) ==
    insertSplit(s, dstPath, splitPath(dstPath), tmpFile, inplace)

Insert(s, dstPath, tmpFile) == insert(s, dstPath, tmpFile, FALSE)

InsertInPlace(s, dstPath) == insert(s, dstPath, "", TRUE)

(***************************************************************************)
(* path.go: SetModifiedDate                                                *)
(***************************************************************************)
\* the patch returned driveFile
SetModifiedDatePatched(driveFile, drivePath) ==
    IF driveFile.err # "" THEN Res(driveFile.s, driveFile.err, NilFile)
    ELSE Res([driveFile.s EXCEPT
                !.fc = cacheAdd(@, drivePath, driveFile.val, driveFile.s.now)],
             "", driveFile.val)

\* SetModifiedDateStatted without the Truncate
SetModifiedDateStatted_NoTruncate(driveFile, drivePath, modifiedDate) ==
    IF driveFile.err # "" THEN Res(driveFile.s, driveFile.err, NilFile)
    ELSE SetModifiedDatePatched(
             GdriveFilesPatch(driveFile.s, driveFile.val.id, "",
                 FormatRFC3339Nano(AddNanosecond(modifiedDate)), {}, {}),
             drivePath)

\* the Stat of the path returned driveFile
SetModifiedDateStatted(driveFile, drivePath, modifiedDate) ==
    IF driveFile.err # "" THEN Res(driveFile.s, driveFile.err, NilFile)
    ELSE SetModifiedDatePatched(
             GdriveFilesPatch(driveFile.s, driveFile.val.id, "",
                 FormatRFC3339Nano(AddNanosecond(Truncate(modifiedDate))),
                 {}, {}),
             drivePath)

SetModifiedDate(s, drivePath, modifiedDate) ==
    SetModifiedDateStatted(Stat(s, drivePath), drivePath, modifiedDate)

(***************************************************************************)
(* path.go: Download, DownloadToFile, InsertFile.  A local file is a       *)
(* record [name, there, mtime, fails]: its name ("" for none), whether it  *)
(* can be opened, its modification time, and the step on the local file    *)
(* system that fails during the call: "create" (os.Create of the temporary *)
(* file), "copy" (io.Copy of the body), "rename" (os.Rename onto the local *)
(* file), "stat" (os.Stat after the upload), or "none".  The value of a    *)
(* download stands for the body of the object: the object itself.          *)
(***************************************************************************)
\* g.transport.RoundTrip(req): one invocation, never retried.  An answer of
\* any HTTP status is a response; err tells a transport error.
RoundTrip(s, fileId) ==
    [s   |-> [s EXCEPT
                !.faults = IF s.faults.kind = "download" /\ s.faults.outs # << >>
                           THEN [@ EXCEPT !.outs = Tail(@)] ELSE @,
                !.log    = Append(@, [kind |-> "download", id |-> fileId,
                                      ok |-> ~(/\ s.faults.kind = "download"
                                               /\ s.faults.outs # << >>
                                               /\ s.faults.outs[1].err
                                               /\ ~s.faults.outs[1].http)])],
     err |-> /\ s.faults.kind = "download"
             /\ s.faults.outs # << >>
             /\ s.faults.outs[1].err
             /\ ~s.faults.outs[1].http]

\* "return resp.Body, err": resp is nil after a transport error, so the
\* call panics instead of returning
DownloadFetched(resp, srcFileObj) ==
    IF resp.err THEN Res(resp.s, "panic", NilFile)
    ELSE Res(resp.s, "", srcFileObj)

\* the Stat of the source returned srcFileObj; a folder has no DownloadUrl
DownloadStatted(srcFileObj) ==
    IF srcFileObj.err # "" THEN Res(srcFileObj.s, srcFileObj.err, NilFile)
    ELSE IF srcFileObj.val.folder THEN Res(srcFileObj.s, "nobody", NilFile)
    ELSE DownloadFetched(RoundTrip(srcFileObj.s, srcFileObj.val.id),
                         srcFileObj.val)

Download(s, srcPath) ==
    IF splitPath(srcPath).path = << >> THEN Res(s, "blank", NilFile)
    ELSE DownloadStatted(Stat(s, splitPath(srcPath).path))

\* Download returned reader: the body is copied into the temporary file,
\* which is renamed to the local file
DownloadToFileFetched(reader, localFile) ==
    IF reader.err # "" THEN Res(reader.s, reader.err, NilFile)
    ELSE IF localFile.fails \in {"copy", "rename"}
    THEN Res(reader.s, "local", NilFile)
    ELSE reader

\* the Stat of the source returned srcFileObj: the name of the local
\* temporary file is drawn and the file created, then Download resolves the
\* source again
DownloadToFileStatted(srcFileObj, srcPath, localFile) ==
    IF srcFileObj.err # "" THEN Res(srcFileObj.s, srcFileObj.err, NilFile)
    ELSE IF srcFileObj.val.folder THEN Res(srcFileObj.s, "nobody", NilFile)
    ELSE IF localFile.fails = "create"
    THEN Res(Drawn(srcFileObj.s), "local", NilFile)
    ELSE DownloadToFileFetched(Download(Drawn(srcFileObj.s), srcPath),
                               localFile)

DownloadToFile(s, srcPath, localFile) ==
    IF splitPath(srcPath).path = << >> THEN Res(s, "blank", NilFile)
    ELSE IF localFile.name = "" THEN Res(s, "nolocal", NilFile)
    ELSE DownloadToFileStatted(Stat(s, splitPath(srcPath).path),
                               splitPath(srcPath).path, localFile)

\* SetModifiedDate returned dstFileObj
InsertFileDated(dstFileObj) ==
    IF dstFileObj.err # ""
    THEN Res(dstFileObj.s, Errorf(dstFileObj.err), NilFile)
    ELSE dstFileObj

\* Insert returned ins; os.Stat reads the mtime of the local file
InsertFileInserted(ins, dstPath, localFile) ==
    IF ins.err # "" THEN Res(ins.s, ins.err, NilFile)
    ELSE IF localFile.fails = "stat"
    THEN Res(ins.s, Errorf("local"), NilFile)
    ELSE InsertFileDated(SetModifiedDate(ins.s, dstPath, localFile.mtime))

InsertFile(s, dstPath, localFile, tmpFile) ==
    IF splitPath(dstPath).path = << >> THEN Res(s, "blank", NilFile)
    ELSE IF localFile.name = "" \/ ~localFile.there
    THEN Res(s, "nolocal", NilFile)
    ELSE InsertFileInserted(Insert(s, splitPath(dstPath).path, tmpFile),
                            splitPath(dstPath).path, localFile)

(***************************************************************************)
(* path.go: ListDir.  The result is the sequence of the objects fetched.   *)
(***************************************************************************)
\* the blank query string ""
BlankQuery == [title |-> "", mime |-> "", live |-> FALSE]

\* "trashed = false"
DefaultQuery == [title |-> "*", mime |-> "any", live |-> TRUE]

RECURSIVE ListDirFetch(_, _, _, _)
\* the get of child idx returned driveFile
\* variant: the objects fetched so far are returned with the error
ListDirFetched_Partial(driveFile, children, idx, ret) ==
    IF driveFile.err # "" THEN Res(driveFile.s, Errorf(driveFile.err), ret)
    ELSE ListDirFetch(driveFile.s, children, idx + 1, Append(ret, driveFile.val))

ListDirFetched(driveFile, children, idx, ret) ==
    IF driveFile.err # "" THEN Res(driveFile.s, Errorf(driveFile.err), << >>)
    ELSE ListDirFetch(driveFile.s, children, idx + 1, Append(ret, driveFile.val))

\* the loop over the children, from child idx
ListDirFetch(s, children, idx, ret) ==
    IF idx > Len(children) THEN Res(s, "", ret)
    ELSE ListDirFetched(GdriveFilesGet(s, children[idx].id), children, idx, ret)

\* the listing returned children
ListDirListed(children) ==
    IF children.err # "" THEN Res(children.s, Errorf(children.err), << >>)
    ELSE ListDirFetch(children.s, children.val, 1, << >>)

\* the Stat of the directory returned driveDir
ListDirStatted(driveDir, query) ==
    IF driveDir.err # "" THEN Res(driveDir.s, driveDir.err, << >>)
    ELSE ListDirListed(
             GdriveChildrenList(driveDir.s, driveDir.val.id,
                                IF query = BlankQuery THEN DefaultQuery ELSE query))

ListDir(s, drivePath, query) == ListDirStatted(Stat(s, drivePath), query)

(***************************************************************************)
(* The state machine: one library instance (its two caches), the remote    *)
(* store it talks to, the clock, and the record of the last two calls.     *)
(* retryIn / retryOut are the input and the result of one call of the      *)
(* retrying invoker taken alone (SpecRetry).                               *)
(***************************************************************************)
VARIABLES store, filecache, childcache, now, last, prev, nops, nticks,
          nrand, retryIn, retryOut

vars == <<store, filecache, childcache, now, last, prev, nops, nticks,
          nrand, retryIn, retryOut>>

Dir(title, parent) ==
    [title |-> title, folder |-> TRUE, parents |-> {parent}, trashed |-> FALSE,
     modifiedDate |-> ServerDate]

File(title, parent) ==
    [title |-> title, folder |-> FALSE, parents |-> {parent}, trashed |-> FALSE,
     modifiedDate |-> ServerDate]

\* What the store may hold when the instance is constructed.
InitStores ==
    { <<RootObject>>,
      <<RootObject, Dir("a", RootId), File("b", 2)>>,
      <<RootObject, File("a", RootId), Dir("b", RootId)>>,
      <<RootObject, File("a", RootId), File("b", RootId)>>,
      <<RootObject, Dir("a", RootId), Dir("a", RootId)>>,
      <<RootObject, Dir("a", RootId), Dir("a", RootId), File("a", RootId)>>,
      <<RootObject, Dir("a", RootId), Dir("b", 2), Dir("b", 2)>>,
      <<RootObject, File("a", RootId), Dir("a", RootId), Dir("b", 3),
        Dir("b", 3)>>,
      <<RootObject, Dir("tmp", RootId), File("temp-1-1", 2)>> }

\* The path strings the calls are given
P_blank == << >>

P_root == <<Sep>>

P_a == <<"a">>

P_sa == <<Sep, "a">>

P_sb == <<Sep, "b">>

P_ab == <<"a", Sep, "b">>

P_c == <<"c">>

P_d == <<"d">>

P_sz == <<Sep, "z">>

StatPaths == {P_blank, P_root, P_a, P_sa, P_sb, P_ab}

MkdirPaths == {P_blank, P_sa, P_ab}

MoveSrcs == {P_a, P_ab}

MoveDsts == {P_blank, P_sb, P_ab}

InsertDsts == {P_a, P_ab}

\* The temporary names math/rand gives the instance, call after call: they
\* differ from one another.  A store may hold what an earlier process left
\* under the first of them.
TempSeq == <<"temp-1-1", "temp-2-2", "temp-3-3", "temp-4-4", "temp-5-5",
             "temp-6-6">>

TempNames == {TempSeq[i] : i \in 1..Len(TempSeq)}

\* one 503 for the next upload
Upload503 == [kind |-> "upload", outs |-> <<HttpErr(503)>>]

InsertFaults == {NoFaults, Upload503}

TickSteps == {CACHE_TTL_SECONDS, CACHE_TTL_SECONDS + 1}

NoCall == [op |-> "none", args |-> << >>, err |-> "", val |-> NilFile,
           log |-> << >>, hist |-> << >>, t0 |-> 0, t1 |-> 0,
           pre |-> <<RootObject>>, draws |-> 0]

NoRetry == [ok |-> FALSE, err |-> Ok, inv |-> << >>, sleeps |-> << >>]

InitWith(stores) ==
    /\ store \in stores
    /\ filecache = EmptyCache
    /\ childcache = EmptyCache
    /\ now = 0
    /\ last = NoCall
    /\ prev = NoCall
    /\ nops = 0
    /\ nticks = 0
    /\ nrand = 0
    /\ retryIn = << >>
    /\ retryOut = NoRetry

Init == InitWith(InitStores)

Start(faults) == MkState(store, filecache, childcache, now, faults)

\* A call returns: its effects on the store, the caches and the clock stay.
Return(op, args, r, maxOps, maxObjects) ==
    /\ nops < maxOps
    /\ Len(r.s.store) <= maxObjects
    /\ store' = r.s.store
    /\ filecache' = r.s.fc
    /\ childcache' = r.s.cc
    /\ now' = r.s.now
    /\ last' = [op |-> op, args |-> args, err |-> r.err, val |-> r.val,
                log |-> r.s.log, hist |-> r.s.hist, t0 |-> now,
                t1 |-> r.s.now, pre |-> store, draws |-> r.s.draws]
    /\ prev' = last
    /\ nops' = nops + 1
    /\ nrand' = nrand + r.s.draws
    /\ UNCHANGED <<nticks, retryIn, retryOut>>

StatCall ==
    \E p \in StatPaths :
        Return("Stat", <<p>>, Stat(Start(NoFaults), p), MaxOps, MaxObjects)

MkdirCall ==
    \E p \in MkdirPaths :
        Return("Mkdir", <<p>>, Mkdir(Start(NoFaults), p), MaxOps, MaxObjects)

MoveCall ==
    \E src \in MoveSrcs, dst \in MoveDsts :
        Return("Move", <<src, dst>>, Move(Start(NoFaults), src, dst),
               MaxOps, MaxObjects)

InsertCall ==
    \E dst \in InsertDsts, f \in InsertFaults :
        Return("Insert", <<dst>>, Insert(Start(f), dst, TempSeq[nrand + 1]),
               MaxOps, MaxObjects)

InsertInPlaceCall ==
    \E dst \in InsertDsts :
        Return("InsertInPlace", <<dst>>, InsertInPlace(Start(NoFaults), dst),
               MaxOps, MaxObjects)

Tick ==
    \E d \in TickSteps :
        /\ nticks < MaxTicks
        /\ now' = now + d
        /\ nticks' = nticks + 1
        /\ UNCHANGED <<store, filecache, childcache, last, prev, nops,
                       nrand, retryIn, retryOut>>

Next ==
    \/ StatCall
    \/ MkdirCall
    \/ MoveCall
    \/ InsertCall
    \/ InsertInPlaceCall
    \/ Tick

Spec == Init /\ [][Next]_vars

(***************************************************************************)
(* SpecStale: the same calls on one store, with few arguments and one call *)
(* more, so that a folder is renamed under a cached prefix.                *)
(***************************************************************************)
StaleMaxOps == 4

StaleStores ==
    { <<RootObject, Dir("a", RootId), Dir("d", RootId), File("b", 3),
        File("c", RootId)>> }

StaleMoveSrcs == {P_a, P_d, P_c}

StaleMoveDsts == {P_sz, P_sa, P_ab}

StaleInit == InitWith(StaleStores)

StaleStatCall ==
    Return("Stat", <<P_ab>>, Stat(Start(NoFaults), P_ab),
           StaleMaxOps, MaxObjects)

StaleMoveCall ==
    \E src \in StaleMoveSrcs, dst \in StaleMoveDsts :
        Return("Move", <<src, dst>>, Move(Start(NoFaults), src, dst),
               StaleMaxOps, MaxObjects)

StaleNext ==
    \/ StaleStatCall
    \/ StaleMoveCall

SpecStale == StaleInit /\ [][StaleNext]_vars

(***************************************************************************)
(* SpecRetry: the retrying invoker alone, on every sequence of outcomes of *)
(* at most MaxOutcomes invocations.                                        *)
(***************************************************************************)
MaxOutcomes == 3

Outcomes ==
    {Ok, NetErr, HttpErr(400), HttpErr(404), HttpErr(500), HttpErr(503),
     HttpErr(599)}

OutcomeSeqs == UNION {[1..n -> Outcomes] : n \in 0..MaxOutcomes}

RetryInit ==
    /\ store = <<RootObject>>
    /\ filecache = EmptyCache
    /\ childcache = EmptyCache
    /\ now = 0
    /\ last = NoCall
    /\ prev = NoCall
    /\ nops = 0
    /\ nticks = 0
    /\ nrand = 0
    /\ retryIn \in OutcomeSeqs
    /\ retryOut = NoRetry

RetryFileCall ==
    /\ nops = 0
    /\ retryOut' = driveFileOpRetry(retryIn)
    /\ nops' = 1
    /\ last' = [NoCall EXCEPT !.op = "driveFileOpRetry"]
    /\ now' = now + (SumSeq(retryOut'.sleeps) \div MS_PER_SECOND)
    /\ UNCHANGED <<store, filecache, childcache, prev, nticks, nrand,
                   retryIn>>

RetryListCall ==
    /\ nops = 0
    /\ retryOut' = driveChildListOpRetry(retryIn)
    /\ nops' = 1
    /\ last' = [NoCall EXCEPT !.op = "driveChildListOpRetry"]
    /\ now' = now + (SumSeq(retryOut'.sleeps) \div MS_PER_SECOND)
    /\ UNCHANGED <<store, filecache, childcache, prev, nticks, nrand,
                   retryIn>>

RetryNext ==
    \/ RetryFileCall
    \/ RetryListCall

SpecRetry == RetryInit /\ [][RetryNext]_vars

(***************************************************************************)
(* SpecDate: SetModifiedDate and Stat on a folder and a file in it.        *)
(***************************************************************************)
DateMaxOps == 3

DateStores == { <<RootObject, Dir("a", RootId), File("b", 2)>> }

DatePaths == {P_a, P_sa, P_ab}

DateTimes ==
    { [sec |-> 1, nsec |-> 0],
      [sec |-> 1, nsec |-> NS_PER_SECOND - 1],
      [sec |-> 2, nsec |-> 500000000] }

DateInit == InitWith(DateStores)

DateSetCall ==
    \E p \in DatePaths, tt \in DateTimes :
        Return("SetModifiedDate", <<p, tt>>,
               SetModifiedDate(Start(NoFaults), p, tt), DateMaxOps, MaxObjects)

DateStatCall ==
    \E p \in DatePaths :
        Return("Stat", <<p>>, Stat(Start(NoFaults), p), DateMaxOps, MaxObjects)

DateNext ==
    \/ DateSetCall
    \/ DateStatCall
    \/ Tick

SpecDate == DateInit /\ [][DateNext]_vars

(***************************************************************************)
(* SpecCache: the two caches alone.  Entries are put, looked up and        *)
(* deleted while the clock advances; last.pre holds the two caches as they *)
(* were before the call.                                                   *)
(***************************************************************************)
CacheMaxOps == 3

CacheMaxTicks == 2

CacheKeys == {P_sa, P_ab}

CacheVals == {ChildRef(2), ChildRef(3)}

CacheTickSteps ==
    {CACHE_TTL_SECONDS - 1, CACHE_TTL_SECONDS, CACHE_TTL_SECONDS + 1}

CacheInit == InitWith({<<RootObject>>})

\* which is "file" (g.filecache) or "child" (g.childcache)
CacheOf(which) == IF which = "file" THEN filecache ELSE childcache

CacheReturn(op, which, args, found, obj, cache) ==
    /\ nops < CacheMaxOps
    /\ filecache' = IF which = "file" THEN cache ELSE filecache
    /\ childcache' = IF which = "child" THEN cache ELSE childcache
    /\ last' = [op |-> op, args |-> <<which>> \o args,
                err |-> IF found THEN "" ELSE "absent", val |-> obj,
                log |-> << >>, hist |-> << >>, t0 |-> now, t1 |-> now,
                pre |-> [file |-> filecache, child |-> childcache]]
    /\ prev' = last
    /\ nops' = nops + 1
    /\ UNCHANGED <<store, now, nticks, nrand, retryIn, retryOut>>

CacheAddCall ==
    \E which \in {"file", "child"}, k \in CacheKeys, v \in CacheVals :
        CacheReturn("cacheAdd", which, <<k, v>>, TRUE, v,
                    cacheAdd(CacheOf(which), k, v, now))

CacheGot(which, k, got) ==
    CacheReturn("cacheGet", which, <<k>>, got.found,
                IF got.found THEN got.obj ELSE NilEntry.obj, got.cache)

CacheGetCall ==
    \E which \in {"file", "child"}, k \in CacheKeys :
        CacheGot(which, k, cacheGet(CacheOf(which), k, now))

CacheDelCall ==
    \E which \in {"file", "child"}, k \in CacheKeys :
        CacheReturn("cacheDel", which, <<k>>, TRUE, NilEntry.obj,
                    cacheDel(CacheOf(which), k))

CacheTick ==
    \E d \in CacheTickSteps :
        /\ nticks < CacheMaxTicks
        /\ now' = now + d
        /\ nticks' = nticks + 1
        /\ UNCHANGED <<store, filecache, childcache, last, prev, nops,
                       nrand, retryIn, retryOut>>

CacheNext ==
    \/ CacheAddCall
    \/ CacheGetCall
    \/ CacheDelCall
    \/ CacheTick

SpecCache == CacheInit /\ [][CacheNext]_vars

(***************************************************************************)
(* SpecSplit: splitPath alone, on every path string of at most MaxPathLen  *)
(* tokens over two titles, and on the string "/a//b/c/".                   *)
(***************************************************************************)
MaxPathLen == 5

PathTokens == {Sep, "a", "b"}

\* the token sequences that are strings: no two titles are adjacent
PathStrings ==
    {p \in UNION {[1..n -> PathTokens] : n \in 0..MaxPathLen} :
        \A i \in 1..(Len(p) - 1) : p[i] = Sep \/ p[i + 1] = Sep}

P_example == <<Sep, "a", Sep, Sep, "b", Sep, "c", Sep>>

SplitInit ==
    /\ store = <<RootObject>>
    /\ filecache = EmptyCache
    /\ childcache = EmptyCache
    /\ now = 0
    /\ last \in {[NoCall EXCEPT !.args = <<p>>] :
                    p \in PathStrings \cup {P_example}}
    /\ prev = NoCall
    /\ nops = 0
    /\ nticks = 0
    /\ nrand = 0
    /\ retryIn = << >>
    /\ retryOut = NoRetry

SplitCall ==
    /\ last.op = "none"
    /\ last' = [last EXCEPT !.op = "splitPath", !.val = splitPath(last.args[1])]
    /\ nops' = nops + 1
    /\ UNCHANGED <<store, filecache, childcache, now, prev, nticks, nrand,
                   retryIn, retryOut>>

SplitNext == SplitCall

SpecSplit == SplitInit /\ [][SplitNext]_vars

(***************************************************************************)
(* SpecFault: the calls of the library while the remote service fails.  A  *)
(* call is given a plan: the invocations of one kind of remote call        *)
(* succeed up to MaxOkBefore times, then one returns a transport error,    *)
(* which the retrying invoker does not retry.                              *)
(***************************************************************************)
FaultMaxOps == 2

MaxOkBefore == 2

FaultKinds == {"get", "list", "insert", "upload", "patch", "trash"}

Oks(n) == [i \in 1..n |-> Ok]

FaultPlans ==
    {NoFaults} \cup {[kind |-> k, outs |-> Oks(n) \o <<NetErr>>] :
                        k \in FaultKinds, n \in 0..MaxOkBefore}

FaultStores ==
    { <<RootObject>>,
      <<RootObject, Dir("a", RootId), File("b", 2)>>,
      <<RootObject, File("a", RootId), Dir("b", RootId)>>,
      <<RootObject, Dir("a", RootId), Dir("a", RootId)>>,
      <<RootObject, Dir("tmp", RootId), File("temp-1-1", 2)>> }

FaultStatPaths == {P_blank, P_root, P_a, P_ab}

FaultPaths == {P_blank, P_a, P_ab}

FaultInit == InitWith(FaultStores)

FaultStatCall ==
    \E p \in FaultStatPaths, f \in FaultPlans :
        Return("Stat", <<p>>, Stat(Start(f), p), FaultMaxOps, MaxObjects)

FaultMkdirCall ==
    \E p \in FaultPaths, f \in FaultPlans :
        Return("Mkdir", <<p>>, Mkdir(Start(f), p), FaultMaxOps, MaxObjects)

FaultMoveCall ==
    \E src \in FaultPaths, dst \in FaultPaths, f \in FaultPlans :
        Return("Move", <<src, dst>>, Move(Start(f), src, dst),
               FaultMaxOps, MaxObjects)

FaultInsertCall ==
    \E dst \in FaultPaths, f \in FaultPlans :
        Return("Insert", <<dst>>, Insert(Start(f), dst, TempSeq[nrand + 1]),
               FaultMaxOps, MaxObjects)

FaultInsertInPlaceCall ==
    \E dst \in FaultPaths, f \in FaultPlans :
        Return("InsertInPlace", <<dst>>, InsertInPlace(Start(f), dst),
               FaultMaxOps, MaxObjects)

FaultNext ==
    \/ FaultStatCall
    \/ FaultMkdirCall
    \/ FaultMoveCall
    \/ FaultInsertCall
    \/ FaultInsertInPlaceCall

SpecFault == FaultInit /\ [][FaultNext]_vars

(***************************************************************************)
(* SpecBlank: the calls of the library on path strings that hold no title  *)
(* ("", "/", "//") and on the string "a".                                  *)
(***************************************************************************)
BlankMaxOps == 2

P_ss == <<Sep, Sep>>

BlankPaths == {P_blank, P_root, P_ss, P_a}

BlankStores ==
    { <<RootObject>>,
      <<RootObject, Dir("tmp", RootId)>>,
      <<RootObject, File("a", RootId)>> }

BlankInit == InitWith(BlankStores)

BlankStatCall ==
    \E p \in BlankPaths :
        Return("Stat", <<p>>, Stat(Start(NoFaults), p), BlankMaxOps, MaxObjects)

BlankMkdirCall ==
    \E p \in BlankPaths :
        Return("Mkdir", <<p>>, Mkdir(Start(NoFaults), p),
               BlankMaxOps, MaxObjects)

BlankMoveCall ==
    \E src \in BlankPaths, dst \in BlankPaths :
        Return("Move", <<src, dst>>, Move(Start(NoFaults), src, dst),
               BlankMaxOps, MaxObjects)

BlankInsertCall ==
    \E dst \in BlankPaths :
        Return("Insert", <<dst>>,
               Insert(Start(NoFaults), dst, TempSeq[nrand + 1]),
               BlankMaxOps, MaxObjects)

BlankInsertInPlaceCall ==
    \E dst \in BlankPaths :
        Return("InsertInPlace", <<dst>>, InsertInPlace(Start(NoFaults), dst),
               BlankMaxOps, MaxObjects)

BlankNext ==
    \/ BlankStatCall
    \/ BlankMkdirCall
    \/ BlankMoveCall
    \/ BlankInsertCall
    \/ BlankInsertInPlaceCall

SpecBlank == BlankInit /\ [][BlankNext]_vars

(***************************************************************************)
(* SpecPlace: SetModifiedDate, Move and the two-phase Insert on a folder   *)
(* "a" that is renamed.                                                    *)
(***************************************************************************)
PlaceMaxOps == 3

PlaceStores ==
    { <<RootObject, Dir("a", RootId)>>,
      <<RootObject, Dir("a", RootId), File("b", 2)>> }

PlaceSetPaths == {P_a, P_sa}

PlaceMoveDsts == {P_sb, P_sz}

PlaceInsertDsts == {P_a, P_ab}

PlaceInit == InitWith(PlaceStores)

PlaceSetCall ==
    \E p \in PlaceSetPaths, tt \in DateTimes :
        Return("SetModifiedDate", <<p, tt>>,
               SetModifiedDate(Start(NoFaults), p, tt),
               PlaceMaxOps, MaxObjects)

PlaceMoveCall ==
    \E dst \in PlaceMoveDsts :
        Return("Move", <<P_a, dst>>, Move(Start(NoFaults), P_a, dst),
               PlaceMaxOps, MaxObjects)

PlaceInsertCall ==
    \E dst \in PlaceInsertDsts :
        Return("Insert", <<dst>>,
               Insert(Start(NoFaults), dst, TempSeq[nrand + 1]),
               PlaceMaxOps, MaxObjects)

PlaceNext ==
    \/ PlaceSetCall
    \/ PlaceMoveCall
    \/ PlaceInsertCall

SpecPlace == PlaceInit /\ [][PlaceNext]_vars

(***************************************************************************)
(* SpecWalk: Stat alone, on paths of up to two directory elements, while   *)
(* the clock advances.  last.fc0 and last.cc0 hold the two caches as they  *)
(* were before the call.                                                   *)
(***************************************************************************)
WalkMaxOps == 3

P_abc == <<"a", Sep, "b", Sep, "c">>

P_ac == <<"a", Sep, "c">>

WalkPaths == {P_a, P_ab, P_ac, P_abc}

WalkStores ==
    { <<RootObject, Dir("a", RootId), Dir("b", 2), File("c", 3)>>,
      <<RootObject, Dir("a", RootId), File("b", 2)>>,
      <<RootObject, File("a", RootId), Dir("a", RootId), File("b", 3)>>,
      <<RootObject, Dir("a", RootId), File("b", 2), Dir("b", 2), File("c", 4)>> }

WalkInit == InitWith(WalkStores)

\* Return, with the caches the call started from
ReturnFrom(op, args, r, maxOps) ==
    /\ nops < maxOps
    /\ store' = r.s.store
    /\ filecache' = r.s.fc
    /\ childcache' = r.s.cc
    /\ now' = r.s.now
    /\ last' = [op |-> op, args |-> args, err |-> r.err, val |-> r.val,
                log |-> r.s.log, hist |-> r.s.hist, t0 |-> now,
                t1 |-> r.s.now, pre |-> store, draws |-> r.s.draws,
                fc0 |-> filecache, cc0 |-> childcache]
    /\ prev' = last
    /\ nops' = nops + 1
    /\ nrand' = nrand + r.s.draws
    /\ UNCHANGED <<nticks, retryIn, retryOut>>

WalkStatCall ==
    \E p \in WalkPaths :
        ReturnFrom("Stat", <<p>>, Stat(Start(NoFaults), p), WalkMaxOps)

WalkNext ==
    \/ WalkStatCall
    \/ Tick

SpecWalk == WalkInit /\ [][WalkNext]_vars

(***************************************************************************)
(* SpecList: ListDir alone, on folders of zero to three children, one of   *)
(* them trashed, with the blank query and with a query of its own, while a *)
(* get or a list invocation may fail.                                      *)
(***************************************************************************)
ListMaxOps == 2

ListMaxOkBefore == 3

Trashed(obj) == [obj EXCEPT !.trashed = TRUE]

ListStores ==
    { <<RootObject, Dir("a", RootId), File("x", 2), Dir("y", 2),
        Trashed(File("z", 2))>>,
      <<RootObject, Dir("a", RootId), File("x", 2), File("y", 2), Dir("z", 2)>>,
      <<RootObject, Dir("a", RootId)>>,
      <<RootObject, File("a", RootId)>> }

ListPaths == {P_root, P_a, P_c}

\* "mimeType = 'application/vnd.google-apps.folder'", trashed ones included
FoldersQuery == [title |-> "*", mime |-> "folder", live |-> FALSE]

\* "trashed = true or trashed = false": every child
EveryQuery == [title |-> "*", mime |-> "any", live |-> FALSE]

ListQueries == {BlankQuery, FoldersQuery, EveryQuery}

ListFaultPlans ==
    {NoFaults} \cup {[kind |-> k, outs |-> Oks(n) \o <<NetErr>>] :
                        k \in {"get", "list"}, n \in 0..ListMaxOkBefore}

ListInit == InitWith(ListStores)

ListDirCall ==
    \E p \in ListPaths, q \in ListQueries, f \in ListFaultPlans :
        Return("ListDir", <<p, q>>, ListDir(Start(f), p, q),
               ListMaxOps, MaxObjects)

ListNext == ListDirCall \/ Tick

SpecList == ListInit /\ [][ListNext]_vars

(***************************************************************************)
(* SpecTransient: every operation of the library, while one invocation of  *)
(* one kind of remote call, the first or a later one, answers 503 once.    *)
(***************************************************************************)
TransMaxOps == 2

TransMaxOkBefore == 6

TransStores ==
    { <<RootObject>>,
      <<RootObject, Dir("a", RootId), File("b", 2)>>,
      <<RootObject, Dir("tmp", RootId), File("temp-1-1", 2)>> }

TransPaths == {P_a, P_ab}

TransPlans ==
    {[kind |-> k, outs |-> Oks(n) \o <<HttpErr(503)>>] :
        k \in FaultKinds, n \in 0..TransMaxOkBefore}

TransInit == InitWith(TransStores)

\* the operation op on the arguments args, from the state s; tmpFile is the
\* temporary name rand gives an Insert
Operation(s, op, args, tmpFile) ==
    CASE op = "Stat"            -> Stat(s, args[1])
      [] op = "Mkdir"           -> Mkdir(s, args[1])
      [] op = "Move"            -> Move(s, args[1], args[2])
      [] op = "Insert"          -> Insert(s, args[1], tmpFile)
      [] op = "InsertInPlace"   -> InsertInPlace(s, args[1])
      [] op = "ListDir"         -> ListDir(s, args[1], args[2])
      [] op = "SetModifiedDate" -> SetModifiedDate(s, args[1], args[2])

TransCalls ==
    {<<op, <<p>>>> : op \in {"Stat", "Mkdir", "Insert", "InsertInPlace"},
                     p \in TransPaths}
    \cup {<<"Move", <<p, q>>>> : p \in TransPaths, q \in TransPaths}
    \cup {<<"ListDir", <<p, BlankQuery>>>> : p \in TransPaths}
    \cup {<<"SetModifiedDate", <<p, [sec |-> 1, nsec |-> 0]>>>> : p \in TransPaths}

\* the calls before the one that meets the 503: they fill the caches
TransWarmCalls ==
    {<<op, <<p>>>> : op \in {"Stat", "Mkdir"}, p \in TransPaths}
    \cup {<<"Move", <<p, q>>>> : p \in TransPaths, q \in TransPaths}

TransWarmCall ==
    \E c \in TransWarmCalls :
        /\ nops < TransMaxOps - 1
        /\ ReturnFrom(c[1], c[2], Operation(Start(NoFaults), c[1], c[2], ""),
                      TransMaxOps)

TransCall ==
    \E c \in TransCalls, f \in TransPlans :
        /\ nops = TransMaxOps - 1
        /\ ReturnFrom(c[1], c[2],
                      Operation(Start(f), c[1], c[2], TempSeq[nrand + 1]),
                      TransMaxOps)

TransNext ==
    \/ TransWarmCall
    \/ TransCall
    \/ Tick

SpecTransient == TransInit /\ [][TransNext]_vars

(***************************************************************************)
(* SpecMkdir: Mkdir on paths of one to three elements, whose parent is     *)
(* there, is missing, is a file or is there twice, while a get, a list or  *)
(* an insert invocation may fail; Stat and Move fill and outdate the       *)
(* caches in between.  The arguments of a Mkdir record the failure planned.*)
(***************************************************************************)
MkdirMaxOps == 3

MkdirMaxOkBefore == 1

MkdirStores ==
    { <<RootObject>>,
      <<RootObject, Dir("a", RootId)>>,
      <<RootObject, File("a", RootId)>>,
      <<RootObject, Dir("a", RootId), Dir("a", RootId)>>,
      <<RootObject, Dir("a", RootId), File("b", 2)>> }

MkdirArgs == {P_a, P_ab, P_abc}

MkdirPlans ==
    {NoFaults} \cup {[kind |-> k, outs |-> Oks(n) \o <<NetErr>>] :
                        k \in {"get", "list", "insert"},
                        n \in 0..MkdirMaxOkBefore}

MkdirInit == InitWith(MkdirStores)

MkdirFaultCall ==
    \E p \in MkdirArgs, f \in MkdirPlans :
        ReturnFrom("Mkdir", <<p, f>>, Mkdir(Start(f), p), MkdirMaxOps)

MkdirStatCall ==
    \E p \in {P_a, P_ab} :
        ReturnFrom("Stat", <<p>>, Stat(Start(NoFaults), p), MkdirMaxOps)

MkdirMoveCall ==
    ReturnFrom("Move", <<P_a, P_sz>>, Move(Start(NoFaults), P_a, P_sz),
               MkdirMaxOps)

MkdirNext ==
    \/ MkdirFaultCall
    \/ MkdirStatCall
    \/ MkdirMoveCall
    \/ Tick

SpecMkdir == MkdirInit /\ [][MkdirNext]_vars

(***************************************************************************)
(* SpecResolve: Stat alone, of the blank path, the root and paths of one   *)
(* to three elements in canonical and other forms, on stores where an      *)
(* element is missing, is there twice or is a file, while a get or a list  *)
(* invocation may fail and cache entries may expire between the calls.     *)
(***************************************************************************)
ResolveMaxOps == 2

ResolveMaxOkBefore == 2

P_sab == <<Sep, "a", Sep, "b">>

ResolvePaths == {P_blank, P_root, P_a, P_sa, P_c, P_ab, P_sab, P_abc}

ResolvePlans ==
    {NoFaults} \cup {[kind |-> k, outs |-> Oks(n) \o <<NetErr>>] :
                        k \in {"get", "list"}, n \in 0..ResolveMaxOkBefore}

ResolveInit == InitWith(WalkStores)

ResolveStatCall ==
    \E p \in ResolvePaths, f \in ResolvePlans :
        ReturnFrom("Stat", <<p, f>>, Stat(Start(f), p), ResolveMaxOps)

ResolveNext == ResolveStatCall \/ Tick

SpecResolve == ResolveInit /\ [][ResolveNext]_vars

(***************************************************************************)
(* SpecPages: GdriveChildrenList on folders of no, one, two, three and     *)
(* five children (one, one, one, two and three pages), with a query by     *)
(* title, the query of any child and the query of folders, while the       *)
(* request for one of the pages may fail for good or answer 503 once.      *)
(***************************************************************************)
PagesMaxOps == 2

PagesMaxOkBefore == 2

PagesMaxObjects == 6

PagesStores ==
    { <<RootObject>>,
      <<RootObject, File("x", RootId)>>,
      <<RootObject, File("x", RootId), Dir("y", RootId)>>,
      <<RootObject, File("x", RootId), Dir("y", RootId), File("x", RootId)>>,
      <<RootObject, File("x", RootId), Dir("y", RootId), File("x", RootId),
        Dir("z", RootId), File("x", RootId)>>,
      <<RootObject, Dir("y", RootId), File("x", 2), File("x", 2),
        Trashed(File("x", 2)), File("x", 2)>> }

PagesParents == {RootAlias, 2}

PagesQueries == {Query("x", "any"), DefaultQuery, FoldersQuery}

PagesPlans ==
    {NoFaults} \cup {[kind |-> "list", outs |-> Oks(n) \o <<o>>] :
                        n \in 0..PagesMaxOkBefore, o \in {NetErr, HttpErr(503)}}

PagesInit == InitWith(PagesStores)

GdriveChildrenListCall ==
    \E parentId \in PagesParents, q \in PagesQueries, f \in PagesPlans :
        /\ ResolveId(parentId) <= Len(store)
        /\ Return("GdriveChildrenList", <<parentId, q>>,
                  GdriveChildrenList(Start(f), parentId, q),
                  PagesMaxOps, PagesMaxObjects)

\* a caller may invoke the other exported primitives as well: they change
\* the store and leave the caches alone
PagesDirectPlans(kind) ==
    {NoFaults} \cup {[kind |-> kind, outs |-> <<o>>] : o \in {NetErr, HttpErr(503)}}

\* title, modifiedDate, addParentIds, removeParentIds
PagesPatches ==
    { <<"y", BlankDate, {}, {}>>,
      <<"", FormatRFC3339Nano([sec |-> 1, nsec |-> 1]), {}, {}>>,
      <<"", BlankDate, {2}, {RootId}>>,
      <<"y", FormatRFC3339Nano([sec |-> 1, nsec |-> 1]), {2}, {RootId}>> }

GdriveFilesInsertCall ==
    \E parentId \in PagesParents, folder \in BOOLEAN,
       f \in PagesDirectPlans("insert") \cup PagesDirectPlans("upload") :
        /\ ResolveId(parentId) <= Len(store)
        /\ f.kind \in {"none", IF folder THEN "insert" ELSE "upload"}
        /\ Return("GdriveFilesInsert", <<"x", parentId, folder>>,
                  GdriveFilesInsert(Start(f), "x", parentId, folder),
                  PagesMaxOps, PagesMaxObjects)

GdriveFilesPatchCall ==
    \E fileId \in {3, 4} \cap (1..Len(store)), a \in PagesPatches,
       f \in PagesDirectPlans("patch") :
        Return("GdriveFilesPatch", <<fileId>> \o a,
               GdriveFilesPatch(Start(f), fileId, a[1], a[2], a[3], a[4]),
               PagesMaxOps, PagesMaxObjects)

GdriveFilesTrashCall ==
    \E fileId \in 2..Len(store), f \in PagesDirectPlans("trash") :
        Return("GdriveFilesTrash", <<fileId>>,
               GdriveFilesTrash(Start(f), fileId),
               PagesMaxOps, PagesMaxObjects)

PagesNext ==
    \/ GdriveChildrenListCall
    \/ GdriveFilesInsertCall
    \/ GdriveFilesPatchCall
    \/ GdriveFilesTrashCall
    \/ Tick

SpecPages == PagesInit /\ [][PagesNext]_vars

(***************************************************************************)
(* SpecFile: the operations that move a body between Drive and a local     *)
(* file: Download, DownloadToFile and InsertFile, on the blank path and    *)
(* paths of one and two elements, with a local file that has no name,      *)
(* cannot be opened or is there, while a step on the local file system or  *)
(* an invocation of one kind of remote call, the HTTP GET of the body      *)
(* included, may fail.  The arguments record the failures planned.         *)
(***************************************************************************)
FileMaxOps == 2

FileMaxOkBefore == 1

FileStores ==
    { <<RootObject>>,
      <<RootObject, Dir("a", RootId), File("b", 2)>>,
      <<RootObject, File("a", RootId)>>,
      <<RootObject, Dir("tmp", RootId), File("temp-1-1", 2)>> }

FilePaths == {P_blank, P_a, P_sa, P_ab}

LocalFile(name, there, fails) ==
    [name |-> name, there |-> there, fails |-> fails,
     mtime |-> IF there THEN [sec |-> 2, nsec |-> 500000000]
                        ELSE [sec |-> 0, nsec |-> 0]]

\* the local files of DownloadToFile: no name, or a name and the step on
\* the local file system that fails
DownloadLocalFiles ==
    {LocalFile("", FALSE, "none")}
    \cup {LocalFile("f", TRUE, x) : x \in {"none", "create", "copy", "rename"}}

\* the local files of InsertFile: no name, one that cannot be opened, one
\* that is there, one that is gone once the upload is done
InsertLocalFiles ==
    {LocalFile("", FALSE, "none"), LocalFile("f", FALSE, "none"),
     LocalFile("f", TRUE, "none"), LocalFile("f", TRUE, "stat")}

\* a failure is planned for the first call only
FilePlans ==
    IF nops > 0 THEN {NoFaults} ELSE
    {NoFaults}
    \cup {[kind |-> k, outs |-> Oks(n) \o <<NetErr>>] :
            k \in {"get", "list", "upload", "patch", "download"},
            n \in 0..FileMaxOkBefore}
    \cup {[kind |-> "download", outs |-> <<HttpErr(503)>>]}

FileInit == InitWith(FileStores)

DownloadCall ==
    \E p \in FilePaths, f \in FilePlans :
        Return("Download", <<p, f>>, Download(Start(f), p),
               FileMaxOps, MaxObjects)

DownloadToFileCall ==
    \E p \in FilePaths, l \in DownloadLocalFiles, f \in FilePlans :
        Return("DownloadToFile", <<p, l, f>>, DownloadToFile(Start(f), p, l),
               FileMaxOps, MaxObjects)

InsertFileCall ==
    \E p \in FilePaths, l \in InsertLocalFiles, f \in FilePlans :
        Return("InsertFile", <<p, l, f>>,
               InsertFile(Start(f), p, l, TempSeq[nrand + 1]),
               FileMaxOps, MaxObjects)

FileNext ==
    \/ DownloadCall
    \/ DownloadToFileCall
    \/ InsertFileCall
    \/ Tick

SpecFile == FileInit /\ [][FileNext]_vars

(***************************************************************************)
(* SpecAtomic: Move of a folder and of a file in it, while its trash or    *)
(* its patch invocation may fail; Stat and Mkdir fill the caches and put a *)
(* new folder where the moved one was.                                     *)
(***************************************************************************)
AtomicMaxOps == 4

AtomicStores ==
    { <<RootObject, Dir("a", RootId), File("b", 2)>>,
      <<RootObject, Dir("a", RootId), File("b", 2), File("z", RootId)>> }

AtomicPlans ==
    {NoFaults} \cup {[kind |-> k, outs |-> <<NetErr>>] : k \in {"trash", "patch"}}

AtomicInit == InitWith(AtomicStores)

AtomicStatCall ==
    Return("Stat", <<P_ab>>, Stat(Start(NoFaults), P_ab), AtomicMaxOps,
           MaxObjects)

AtomicMkdirCall ==
    Return("Mkdir", <<P_a>>, Mkdir(Start(NoFaults), P_a), AtomicMaxOps,
           MaxObjects)

AtomicMoveCall ==
    \E src \in {P_a, P_ab}, dst \in {P_sz, P_c}, f \in AtomicPlans :
        Return("Move", <<src, dst>>, Move(Start(f), src, dst), AtomicMaxOps,
               MaxObjects)

AtomicNext ==
    \/ AtomicStatCall
    \/ AtomicMkdirCall
    \/ AtomicMoveCall

SpecAtomic == AtomicInit /\ [][AtomicNext]_vars

(***************************************************************************)
(* What the store really holds at a path, whatever the caches say.         *)
(***************************************************************************)
Segments(drivePath) == SelectSeq(drivePath, LAMBDA x : x # Sep)

LiveChildren(st, parentId, title) ==
    {i \in 1..Len(st) : /\ parentId \in st[i].parents
                        /\ ~st[i].trashed
                        /\ st[i].title = title}

LiveFolders(st, parentId, title) ==
    {i \in LiveChildren(st, parentId, title) : st[i].folder}

RECURSIVE AtFrom(_, _, _)
AtFrom(st, ids, segs) ==
    IF segs = << >> THEN ids
    ELSE AtFrom(st,
                UNION {IF Len(segs) > 1 THEN LiveFolders(st, i, Head(segs))
                                        ELSE LiveChildren(st, i, Head(segs))
                       : i \in ids},
                Tail(segs))

\* the non-trashed objects at drivePath
AtPath(st, drivePath) == AtFrom(st, {RootId}, Segments(drivePath))

\* a path string that is its own normal form
IsCanonical(drivePath) ==
    drivePath # << >> /\ splitPath(drivePath).path = drivePath

CountKind(log, kind) == Cardinality({i \in 1..Len(log) : log[i].kind = kind})

\* Stat(p) walks through a title that two non-trashed folders of one parent
\* share: some element of p, reached through unique folders, has two folders.
RECURSIVE DupFolderAt(_, _, _)
DupFolderAt(st, parentId, segs) ==
    /\ segs # << >>
    /\ \/ Cardinality(LiveFolders(st, parentId, Head(segs))) >= 2
       \/ /\ Cardinality(LiveFolders(st, parentId, Head(segs))) = 1
          /\ DupFolderAt(st, CHOOSE i \in LiveFolders(st, parentId, Head(segs)) : TRUE,
                         Tail(segs))

\* ... and a directory element of p, the one with the duplicated title or
\* one before it, has a non-trashed non-folder of its title beside it
RECURSIVE DupFolderWithFileAt(_, _, _)
DupFolderWithFileAt(st, parentId, segs) ==
    /\ Len(segs) > 1
    /\ \/ LiveChildren(st, parentId, Head(segs))
             # LiveFolders(st, parentId, Head(segs))
       \/ /\ Cardinality(LiveFolders(st, parentId, Head(segs))) = 1
          /\ DupFolderWithFileAt(st,
                 CHOOSE i \in LiveFolders(st, parentId, Head(segs)) : TRUE,
                 Tail(segs))

StatThroughDup ==
    /\ last.op = "Stat"
    /\ last.args[1] # P_root
    /\ DupFolderAt(last.pre, RootId, Segments(last.args[1]))

(***************************************************************************)
(* C1.  A second Stat of the same canonical path, no later than the TTL    *)
(* after a first Stat of it that resolved the path in the store and        *)
(* succeeded (the TTL window of the entry starts there: a Stat served from *)
(* the cache does not renew it), with no call in between, returns the same *)
(* object and makes no remote call.                                        *)
(***************************************************************************)
StatTwice ==
    /\ prev.op = "Stat"
    /\ last.op = "Stat"
    /\ last.args = prev.args
    /\ IsCanonical(last.args[1])
    /\ prev.err = ""
    /\ prev.log # << >>
    /\ last.t0 - prev.t1 <= CACHE_TTL_SECONDS

C1_SecondStatFromCache ==
    StatTwice => /\ last.err = ""
                 /\ last.val = prev.val
                 /\ last.log = << >>

\* the first Stat listed the store, the second came CACHE_TTL_SECONDS later
C1_Witness ==
    /\ StatTwice
    /\ CountKind(prev.log, "list") > 0
    /\ last.t0 = prev.t1 + CACHE_TTL_SECONDS
    /\ last.log = << >>

MkdirTwice ==
    /\ prev.op = "Mkdir"
    /\ last.op = "Mkdir"
    /\ last.args = prev.args
    /\ prev.err = ""
    /\ last.err = ""
    /\ last.t0 = prev.t1

C3_MkdirExactlyOneInsert ==
    MkdirTwice =>
        /\ last.val.id = prev.val.id
        /\ CountKind(prev.log, "insert") + CountKind(last.log, "insert") = 1

(***************************************************************************)
(* C3 amended.  Two Mkdir of the same path in succession that both succeed *)
(* return the same id; the second makes no insert and the first at most    *)
(* one, so at most one insert is made by the two (none when the first      *)
(* found the folder).                                                      *)
(***************************************************************************)
C3_MkdirIdempotent ==
    MkdirTwice =>
        /\ last.val.id = prev.val.id
        /\ CountKind(last.log, "insert") = 0
        /\ CountKind(prev.log, "insert") <= 1
        /\ CountKind(prev.log, "insert") = 0 => prev.val.id \in 1..Len(prev.pre)

\* the first Mkdir created the folder, the second found it
C3_Witness ==
    /\ MkdirTwice
    /\ AtPath(prev.pre, prev.args[1]) = {}
    /\ CountKind(prev.log, "insert") = 1
    /\ last.val.id = prev.val.id
    /\ last.val.id = Len(prev.pre) + 1

(***************************************************************************)
(* C4.  A Stat of a canonical path immediately after a successful Mkdir of *)
(* it succeeds with the id Mkdir returned and lists nothing: it is served  *)
(* from the cache.                                                         *)
(***************************************************************************)
StatAfterMkdir ==
    /\ prev.op = "Mkdir"
    /\ last.op = "Stat"
    /\ last.args = prev.args
    /\ IsCanonical(last.args[1])
    /\ prev.err = ""
    /\ last.t0 = prev.t1

C4_StatAfterMkdir ==
    StatAfterMkdir => /\ last.err = ""
                      /\ last.val.id = prev.val.id
                      /\ last.log = << >>

\* Mkdir created a/b and Stat found it
C4_Witness ==
    /\ StatAfterMkdir
    /\ CountKind(prev.log, "insert") = 1
    /\ last.args[1] = P_ab
    /\ last.val.id = prev.val.id

(***************************************************************************)
(* C5.  After a successful Move of a file to a path that held nothing, a   *)
(* Stat of the destination string returns the moved object and a Stat of   *)
(* the source string returns ObjectNotFound.                               *)
(***************************************************************************)
StatAfterMove ==
    /\ prev.op = "Move"
    /\ prev.err = ""
    /\ ~prev.val.folder
    /\ AtPath(prev.pre, prev.args[2]) = {}
    /\ last.op = "Stat"

C5_StatAfterMove ==
    StatAfterMove =>
        /\ last.args[1] = prev.args[2] =>
               last.err = "" /\ last.val.id = prev.val.id
        /\ last.args[1] = prev.args[1] => IsObjectNotFound(last.err)

(***************************************************************************)
(* C6.  A Move whose destination holds a folder fails: it trashes nothing, *)
(* patches nothing and leaves the folder untrashed.                        *)
(***************************************************************************)
FoldersAt(st, drivePath) == {i \in AtPath(st, drivePath) : st[i].folder}

MoveOntoFolder ==
    /\ last.op = "Move"
    /\ FoldersAt(last.pre, last.args[2]) # {}
    /\ AtPath(last.pre, last.args[1]) # {}

C6_MoveOntoFolderFails ==
    MoveOntoFolder =>
        /\ last.err # ""
        /\ CountKind(last.log, "trash") = 0
        /\ CountKind(last.log, "patch") = 0
        /\ \A i \in FoldersAt(last.pre, last.args[2]) : ~store[i].trashed

(***************************************************************************)
(* C7.  A successful Move onto a path that holds one plain file, not the   *)
(* moved object itself, trashes that file before it patches, leaves the    *)
(* cache entry of the destination on the moved object, and leaves the      *)
(* moved object as the only non-trashed object at the destination.         *)
(***************************************************************************)
OldAt(st, drivePath) == CHOOSE i \in AtPath(st, drivePath) : TRUE

MoveOntoFile ==
    /\ last.op = "Move"
    /\ last.err = ""
    /\ Cardinality(AtPath(last.pre, last.args[2])) = 1
    /\ ~last.pre[OldAt(last.pre, last.args[2])].folder
    /\ OldAt(last.pre, last.args[2]) # last.val.id

TrashBeforePatch(log, id) ==
    \E i \in 1..Len(log) :
        /\ log[i] = [kind |-> "trash", id |-> id, ok |-> TRUE]
        /\ \A j \in 1..i : log[j].kind # "patch"

C7_MoveOverFile ==
    MoveOntoFile =>
        /\ TrashBeforePatch(last.log, OldAt(last.pre, last.args[2]))
        /\ store[OldAt(last.pre, last.args[2])].trashed
        /\ cacheGet(filecache, splitPath(last.args[2]).path, last.t1).obj.id
               = last.val.id
        /\ \A d \in AtPath(last.pre, splitPath(last.args[2]).dir) :
               LiveChildren(store, d, splitPath(last.args[2]).file)
                   = {last.val.id}

(***************************************************************************)
(* C8.  An Insert whose upload fails once with a 503 and succeeds on the   *)
(* retry leaves exactly one non-trashed object at the destination; and     *)
(* after a second Insert of the same name no non-trashed temporary object  *)
(* lies in the temporary folder.                                           *)
(***************************************************************************)
UploadRetried(call) ==
    /\ call.op = "Insert"
    /\ call.err = ""
    /\ \E i \in 1..Len(call.log) : call.log[i].kind = "upload" /\ ~call.log[i].ok

TempObjects(st) ==
    UNION {LiveChildren(st, d, t) : d \in AtPath(st, DRIVE_TMP_FOLDER),
                                    t \in TempNames}

C8_InsertRetried ==
    /\ UploadRetried(last) => Cardinality(AtPath(store, last.args[1])) = 1
    /\ (/\ UploadRetried(prev)
        /\ last.op = "Insert"
        /\ last.args = prev.args
        /\ last.err = "") => TempObjects(store) = {}

(***************************************************************************)
(* C9.  The retrying invoker retries only errors with an HTTP status from  *)
(* 500 to 599: when the first invocation fails with another status or with *)
(* an error that has no status, it returns that error after this one       *)
(* invocation and without a sleep.                                         *)
(***************************************************************************)
Is5xx(o) == o.err /\ o.http /\ o.code >= HTTP_5XX_LOW /\ o.code <= HTTP_5XX_HIGH

Returned == nops = 1 /\ last.op \in {"driveFileOpRetry", "driveChildListOpRetry"}

C9_RetryOnly5xx ==
    (Returned /\ retryIn # << >> /\ retryIn[1].err /\ ~Is5xx(retryIn[1])) =>
        /\ ~retryOut.ok
        /\ retryOut.err = retryIn[1]
        /\ Len(retryOut.inv) = 1
        /\ retryOut.sleeps = << >>

(***************************************************************************)
(* C10.  The retrying invoker makes at most NUM_TRIES invocations; when    *)
(* NUM_TRIES invocations in a row fail with a 5xx status it returns no     *)
(* result and the error of the last of them; when invocation k succeeds    *)
(* after k - 1 such failures it returns the result after exactly k         *)
(* invocations.                                                            *)
(***************************************************************************)
C10_RetryTerminates ==
    Returned =>
        /\ Len(retryOut.inv) <= NUM_TRIES
        /\ (/\ Len(retryIn) >= NUM_TRIES
            /\ \A i \in 1..NUM_TRIES : Is5xx(retryIn[i]))
           => /\ ~retryOut.ok
              /\ retryOut.err = retryIn[NUM_TRIES]
              /\ Len(retryOut.inv) = NUM_TRIES
        /\ \A k \in 1..NUM_TRIES :
               (/\ k <= Len(retryIn)
                /\ ~retryIn[k].err
                /\ \A i \in 1..(k - 1) : Is5xx(retryIn[i]))
               => /\ retryOut.ok
                  /\ Len(retryOut.inv) = k

\* three failures with three different 5xx statuses: the last one is returned
C10_Witness ==
    /\ Returned
    /\ last.op = "driveFileOpRetry"
    /\ retryIn = <<HttpErr(500), HttpErr(503), HttpErr(599)>>
    /\ ~retryOut.ok
    /\ retryOut.err = HttpErr(599)
    /\ Len(retryOut.inv) = NUM_TRIES

(***************************************************************************)
(* C11 as stated.  A lookup of a key the cache holds returns the stored    *)
(* value if and only if now - timestamp < CACHE_TTL_SECONDS; otherwise it  *)
(* returns absent and removes the entry.                                   *)
(***************************************************************************)
LookupOfHeld ==
    /\ last.op = "cacheGet"
    /\ last.args[2] \in DOMAIN last.pre[last.args[1]]

HeldEntry == last.pre[last.args[1]][last.args[2]]

LookupReturnsHeld ==
    /\ last.err = ""
    /\ last.val = HeldEntry.obj
    /\ last.args[2] \in DOMAIN CacheOf(last.args[1])
    /\ CacheOf(last.args[1])[last.args[2]] = HeldEntry

LookupEvicts ==
    /\ last.err = "absent"
    /\ last.args[2] \notin DOMAIN CacheOf(last.args[1])

C11_ValidBelowTTL ==
    LookupOfHeld =>
        IF last.t0 - HeldEntry.timestamp < CACHE_TTL_SECONDS
        THEN LookupReturnsHeld ELSE LookupEvicts

(***************************************************************************)
(* C11 amended.  A lookup of a key the cache holds returns the stored      *)
(* value if and only if now - timestamp <= CACHE_TTL_SECONDS; a lookup     *)
(* past the TTL (now - timestamp > CACHE_TTL_SECONDS) returns absent and   *)
(* removes the entry.                                                      *)
(***************************************************************************)
C11_ValidUpToTTL ==
    LookupOfHeld =>
        IF last.t0 - HeldEntry.timestamp <= CACHE_TTL_SECONDS
        THEN LookupReturnsHeld ELSE LookupEvicts

\* a lookup one second past the TTL evicted the entry
C11_Witness ==
    /\ LookupOfHeld
    /\ last.t0 - HeldEntry.timestamp = CACHE_TTL_SECONDS + 1
    /\ LookupEvicts

(***************************************************************************)
(* C12.  After a successful Stat(P), a Stat(Q) of a string Q with the same *)
(* non-empty canonical path, no later than the TTL and with no call in     *)
(* between, returns the same object and makes no remote call.              *)
(***************************************************************************)
StatEquivalent ==
    /\ prev.op = "Stat"
    /\ last.op = "Stat"
    /\ splitPath(last.args[1]).path = splitPath(prev.args[1]).path
    /\ splitPath(last.args[1]).path # << >>
    /\ prev.err = ""
    /\ last.t0 - prev.t1 <= CACHE_TTL_SECONDS

C12_EquivalentKeys ==
    StatEquivalent => /\ last.err = ""
                      /\ last.val = prev.val
                      /\ last.log = << >>

(***************************************************************************)
(* C13 as stated.  The canonical path splitPath returns is the slash-join  *)
(* of the non-empty segments of its input, with no leading separator, no   *)
(* trailing separator and no empty segment; the directory is the join of   *)
(* all segments but the last and the leaf is the last; an input without    *)
(* segments gives three empty outputs.                                     *)
(***************************************************************************)
SplitReturned == last.op = "splitPath"

\* a path string made of segments joined by single separators
RECURSIVE JoinSegments(_)
JoinSegments(segs) ==
    IF segs = << >> THEN << >>
    ELSE IF Len(segs) = 1 THEN <<segs[1]>>
    ELSE <<segs[1], Sep>> \o JoinSegments(Tail(segs))

AllButLast(segs) == SubSeq(segs, 1, Len(segs) - 1)

C13_CanonicalIsJoin ==
    SplitReturned =>
        IF Segments(last.args[1]) = << >>
        THEN last.val = [dir |-> << >>, file |-> "", path |-> << >>]
        ELSE /\ last.val.path = JoinSegments(Segments(last.args[1]))
             /\ last.val.path[1] # Sep
             /\ last.val.dir = JoinSegments(AllButLast(Segments(last.args[1])))
             /\ last.val.file = Segments(last.args[1])[Len(Segments(last.args[1]))]

(***************************************************************************)
(* C13 amended.  For an input with two or more segments the canonical path *)
(* is their slash-join (no leading or trailing separator, no empty         *)
(* segment), the directory the join of all but the last and the leaf the   *)
(* last; for an input with one segment s the directory is "/", the leaf s  *)
(* and the canonical path "/s"; an input without segments gives three      *)
(* empty outputs.                                                          *)
(***************************************************************************)
C13_SplitPath ==
    SplitReturned =>
        IF Segments(last.args[1]) = << >>
        THEN last.val = [dir |-> << >>, file |-> "", path |-> << >>]
        ELSE IF Len(Segments(last.args[1])) = 1
        THEN last.val = [dir |-> <<Sep>>, file |-> Segments(last.args[1])[1],
                         path |-> <<Sep, Segments(last.args[1])[1]>>]
        ELSE /\ last.val.path = JoinSegments(Segments(last.args[1]))
             /\ last.val.dir = JoinSegments(AllButLast(Segments(last.args[1])))
             /\ last.val.file = Segments(last.args[1])[Len(Segments(last.args[1]))]

\* "/a//b/c/" gives "a/b", "c", "a/b/c"
C13_Witness ==
    /\ SplitReturned
    /\ last.args[1] = P_example
    /\ last.val = [dir |-> <<"a", Sep, "b">>, file |-> "c",
                   path |-> <<"a", Sep, "b", Sep, "c">>]

(***************************************************************************)
(* C14.  A Stat of the same path string after a successful                 *)
(* SetModifiedDate(path, t) yields an object whose ModifiedDate is t       *)
(* truncated to whole seconds; and the date SetModifiedDate sent to the    *)
(* store is that time plus one nanosecond.                                 *)
(***************************************************************************)
OneNanosecond == <<0, 0, 0, 0, 0, 0, 0, 0, 1>>

DateWasSet(call) == call.op = "SetModifiedDate" /\ call.err = ""

C14_ModifiedDateTruncated ==
    /\ DateWasSet(last) =>
           /\ store[last.val.id].modifiedDate
                  = [sec |-> last.args[2].sec, frac |-> OneNanosecond]
           /\ last.val.modifiedDate = store[last.val.id].modifiedDate
    /\ (DateWasSet(prev) /\ last.op = "Stat" /\ last.args[1] = prev.args[1]) =>
           /\ last.err = ""
           /\ ~ModifiedDate(last.val).err
           /\ ModifiedDate(last.val).t = [sec |-> prev.args[2].sec, nsec |-> 0]

\* the date of a/b was set to 1.999999999 s and read back as 1 s
C14_Witness ==
    /\ DateWasSet(prev)
    /\ prev.args = <<P_ab, [sec |-> 1, nsec |-> NS_PER_SECOND - 1]>>
    /\ last.op = "Stat"
    /\ last.args[1] = P_ab
    /\ ModifiedDate(last.val).t = [sec |-> 1, nsec |-> 0]
    /\ store[3].modifiedDate = [sec |-> 1, frac |-> OneNanosecond]


(***************************************************************************)
(* C15.  IsObjectNotFound is true of what a Stat returns exactly when a    *)
(* listing of the Stat returned no match, for a directory element or for   *)
(* the last element of the path; it is false of no error, of the duplicate *)
(* error, of the not-a-directory error, of the blank-path error and of the *)
(* error of a remote call that failed.  Checked for the first Stat of an   *)
(* instance, whose caches are empty, against the store itself.             *)
(***************************************************************************)
\* the walk of segs from parentId comes to an element no object has, before
\* any element that is a non-folder or that several objects have
RECURSIVE ZeroMatchAt(_, _, _)
ZeroMatchAt(st, parentId, segs) ==
    /\ segs # << >>
    /\ IF Len(segs) = 1 THEN LiveChildren(st, parentId, Head(segs)) = {}
       ELSE /\ LiveChildren(st, parentId, Head(segs))
                  = LiveFolders(st, parentId, Head(segs))
            /\ \/ LiveFolders(st, parentId, Head(segs)) = {}
               \/ /\ Cardinality(LiveFolders(st, parentId, Head(segs))) = 1
                  /\ ZeroMatchAt(st,
                         CHOOSE i \in LiveFolders(st, parentId, Head(segs)) : TRUE,
                         Tail(segs))

\* the last remote invocation of the call failed
LastInvocationFailed ==
    last.log # << >> /\ ~last.log[Len(last.log)].ok

FirstStat == nops = 1 /\ last.op = "Stat"

C15_IsObjectNotFound ==
    FirstStat =>
        /\ IsObjectNotFound(last.err)
              <=> /\ ~LastInvocationFailed
                  /\ last.args[1] # P_root
                  /\ ZeroMatchAt(last.pre, RootId, Segments(last.args[1]))
        /\ last.err \in {"", "dup", "notdir", "blank", "remote"}
              => ~IsObjectNotFound(last.err)
        /\ last.err \in {"", "notfound", "dup", "notdir", "blank", "remote"}

\* a Stat of "a/b" on a store without "a": the folder listing of "a" is empty
C15_Witness ==
    /\ FirstStat /\ last.args[1] = P_ab /\ last.pre = <<RootObject>>
    /\ ~LastInvocationFailed
    /\ Len(last.log) = 2
    /\ IsObjectNotFound(last.err)

(***************************************************************************)
(* C16.  Stat, Mkdir, Move, Insert and InsertInPlace, given a path string  *)
(* that holds no title (for Move, as either argument), return an error     *)
(* and make no insert, patch or trash call.  The string "/" given to Stat  *)
(* is left out: it names the root (C18).                                   *)
(***************************************************************************)
IsBlank(drivePath) == splitPath(drivePath).path = << >>

MutatingKinds == {"insert", "upload", "patch", "trash"}

Mutations(log) == SelectSeq(log, LAMBDA e : e.kind \in MutatingKinds)

BlankCall ==
    /\ last.op \in {"Stat", "Mkdir", "Move", "Insert", "InsertInPlace"}
    /\ \E i \in 1..Len(last.args) : IsBlank(last.args[i])
    /\ ~(last.op = "Stat" /\ last.args[1] = P_root)

C16_BlankPathImmediate ==
    BlankCall => last.err # "" /\ Mutations(last.log) = << >>

(***************************************************************************)
(* C17.  In Mkdir, Move, Insert and InsertInPlace, once a remote call      *)
(* fails or a Stat of the operation returns an error the operation does    *)
(* not tolerate, the operation returns an error and makes no further       *)
(* remote call: the call that failed, or the listing that gave the Stat    *)
(* its error, is the last of the log.  What the successful mutating calls  *)
(* before it did stays in the store: the objects inserted are there, not   *)
(* trashed, and the objects trashed stay trashed.                          *)
(***************************************************************************)
Mutators == {"Mkdir", "Move", "Insert", "InsertInPlace"}

FailedAt(log) == {i \in 1..Len(log) : ~log[i].ok}

OkOfKinds(log, kinds) ==
    {i \in 1..Len(log) : log[i].ok /\ log[i].kind \in kinds}

TrashedIn(log) == {log[i].id : i \in OkOfKinds(log, {"trash"})}

\* the store holds what the successful mutating calls of the log did to pre
NoRollback(pre, log, st) ==
    /\ Len(st) = Len(pre) + Cardinality(OkOfKinds(log, {"insert", "upload"}))
    /\ \A i \in 1..Len(pre) :
           st[i].trashed <=> (pre[i].trashed \/ i \in TrashedIn(log))
    /\ \A i \in (Len(pre) + 1)..Len(st) :
           st[i].trashed <=> i \in TrashedIn(log)

MutatorCall ==
    /\ last.op \in Mutators
    /\ \A i \in 1..Len(last.args) : ~IsBlank(last.args[i])

C17_AbortNoRollback ==
    MutatorCall =>
        /\ FailedAt(last.log) # {}
              => last.err # "" /\ FailedAt(last.log) = {Len(last.log)}
        /\ last.err # ""
              => /\ last.log # << >>
                 /\ \/ ~last.log[Len(last.log)].ok
                    \/ last.log[Len(last.log)].kind = "list"
                 /\ NoRollback(last.pre, last.log, store)

\* an Insert whose upload succeeded and whose patch failed: the temporary
\* object stays where it was uploaded
C17_Witness ==
    /\ last.op = "Insert" /\ ~IsBlank(last.args[1])
    /\ last.err # ""
    /\ OkOfKinds(last.log, {"upload"}) # {}
    /\ last.log[Len(last.log)] = [kind |-> "patch", id |-> Len(store), ok |-> FALSE]
    /\ ~store[Len(store)].trashed
    /\ store[Len(store)].title \in TempNames

(***************************************************************************)
(* C18.  The root is resolved without a remote call: a Stat of "/" makes   *)
(* no get and no list call, and a Stat that walks down from the root makes *)
(* no call for the root itself (its first call lists the children of the   *)
(* root, and it gets no object but the one the path names).                *)
(***************************************************************************)
StatOfRoot == last.op = "Stat" /\ last.args[1] = P_root

StatBelowRoot ==
    /\ FirstStat
    /\ last.args[1] = P_a
    /\ last.err = ""

C18_RootWithoutRemoteCall ==
    /\ StatOfRoot => last.log = << >>
    /\ StatBelowRoot =>
          last.log = << [kind |-> "list", id |-> RootId, ok |-> TRUE],
                        [kind |-> "get", id |-> last.val.id, ok |-> TRUE] >>

(***************************************************************************)
(* C19.  During a two-phase Insert(dst), in the store as every successful  *)
(* mutating call from the upload on leaves it, the uploaded object is      *)
(* either in the temporary folder under its temporary name or in the       *)
(* folder at dst's directory under dst's last element; it is never in that *)
(* folder under the temporary name nor in the temporary folder under the   *)
(* last element of dst.                                                    *)
(***************************************************************************)
OkMutations(log) == SelectSeq(log, LAMBDA e : e.ok /\ e.kind \in MutatingKinds)

\* the positions in hist of the stores from the upload on
FromUpload(log) ==
    {k \in 1..Len(OkMutations(log)) :
        \E u \in 1..k : OkMutations(log)[u].kind = "upload"}

\* the id the upload gave the new object
UploadedId(log, hist) ==
    Len(hist[CHOOSE u \in FromUpload(log) : \A k \in FromUpload(log) : u <= k])

\* object id is a non-trashed child titled title of a folder at dirPath
IsAt(st, id, dirPath, title) ==
    \E d \in AtPath(st, dirPath) : id \in LiveChildren(st, d, title)

TwoPhaseInsert ==
    /\ last.op = "Insert"
    /\ ~IsBlank(last.args[1])
    /\ FromUpload(last.log) # {}

C19_TwoPhasePlacement ==
    TwoPhaseInsert =>
        \A k \in FromUpload(last.log) :
            /\ \/ IsAt(last.hist[k], UploadedId(last.log, last.hist),
                        DRIVE_TMP_FOLDER, TempSeq[nrand])
               \/ IsAt(last.hist[k], UploadedId(last.log, last.hist),
                        splitPath(last.args[1]).dir, splitPath(last.args[1]).file)
            /\ ~IsAt(last.hist[k], UploadedId(last.log, last.hist),
                     splitPath(last.args[1]).dir, TempSeq[nrand])
            /\ ~IsAt(last.hist[k], UploadedId(last.log, last.hist),
                     DRIVE_TMP_FOLDER, splitPath(last.args[1]).file)

\* SetModifiedDate("a"), Move("a", "/b"), Insert("a/b"): the upload is moved
\* into the folder that was "a" and is now "b", while no folder is at "a"
C19_StaleParent ==
    /\ TwoPhaseInsert /\ last.args[1] = P_ab /\ last.err = ""
    /\ prev.op = "Move" /\ prev.args = <<P_a, P_sb>> /\ prev.err = ""
    /\ store[last.val.id].parents = {prev.val.id}
    /\ store[prev.val.id].folder /\ store[prev.val.id].title = "b"
    /\ AtPath(store, P_a) = {}

(***************************************************************************)
(* C20.  After an InsertInPlace(dst) that succeeds, dst's directory being  *)
(* a folder of the store: the folder has exactly one non-trashed child     *)
(* with dst's last element as title, that child is the object the call     *)
(* uploaded, what the folder held under that title before is trashed, and  *)
(* a Stat(dst) made next returns the id of the uploaded object.            *)
(***************************************************************************)
\* the folders at the directory of drivePath
ParentFolders(st, drivePath) ==
    {d \in AtPath(st, splitPath(drivePath).dir) : st[d].folder}

InPlaceDone(c) ==
    /\ c.op = "InsertInPlace"
    /\ c.err = ""
    /\ ParentFolders(c.pre, c.args[1]) # {}

C20_InPlaceResult ==
    /\ InPlaceDone(last) =>
          /\ last.val.id = Len(store)
          /\ Len(store) = Len(last.pre) + 1
          /\ \A d \in ParentFolders(last.pre, last.args[1]) :
                /\ LiveChildren(store, d, splitPath(last.args[1]).file)
                      = {last.val.id}
                /\ \A i \in LiveChildren(last.pre, d,
                                          splitPath(last.args[1]).file) :
                      store[i].trashed
    /\ (InPlaceDone(prev) /\ last.op = "Stat" /\ last.args = prev.args) =>
          last.err = "" /\ last.val.id = prev.val.id

(***************************************************************************)
(* C21 as stated.  After a Move(src, dst) that succeeded, the file cache   *)
(* holds no entry under the canonical path of src and holds under the      *)
(* canonical path of dst the object Move returned.                         *)
(***************************************************************************)
MoveDone == last.op = "Move" /\ last.err = ""

SrcKey == splitPath(last.args[1]).path

DstKey == splitPath(last.args[2]).path

DstEntryIsResult ==
    /\ DstKey \in DOMAIN filecache
    /\ filecache[DstKey].obj = last.val
    /\ filecache[DstKey].timestamp = last.t1
    /\ last.val = FileOf(store, last.val.id)

C21_MoveCacheBoth ==
    MoveDone => SrcKey \notin DOMAIN filecache /\ DstEntryIsResult

(***************************************************************************)
(* C21 amended.  After a Move(src, dst) that succeeded, the file cache     *)
(* holds under the canonical path of dst the object Move returned, as the  *)
(* store has it, stamped with the time of the return; it holds no entry    *)
(* under the canonical path of src unless that is the canonical path of    *)
(* dst too.                                                                *)
(***************************************************************************)
C21_MoveCache ==
    MoveDone =>
        /\ DstEntryIsResult
        /\ SrcKey # DstKey => SrcKey \notin DOMAIN filecache

\* a Move whose source had been cached by a Stat
C21_Witness ==
    /\ MoveDone
    /\ SrcKey # DstKey
    /\ prev.op = "Stat" /\ prev.err = ""
    /\ splitPath(prev.args[1]).path = SrcKey
    /\ DstEntryIsResult

(***************************************************************************)
(* C22.  From a store in which no folder has two non-trashed children with *)
(* one title, the calls of one instance (Mkdir, Move, Insert,              *)
(* InsertInPlace, SetModifiedDate, no remote call failing) leave a store   *)
(* in which no folder has two non-trashed children with one title.  The    *)
(* stores of SpecPlace start without such children.                        *)
(***************************************************************************)
\* the non-trashed objects that share parent and title with another one
DuplicateSiblings(st) ==
    {i \in 1..Len(st) :
        /\ ~st[i].trashed
        /\ \E j \in 1..Len(st) :
              /\ j # i
              /\ ~st[j].trashed
              /\ st[j].title = st[i].title
              /\ st[j].parents \cap st[i].parents # {}}

C22_NoDuplicateSiblings == DuplicateSiblings(store) = {}

(***************************************************************************)
(* C23.  When the walk of a Stat comes to a directory element that is not  *)
(* in the prefix cache and that a non-trashed non-folder child of the      *)
(* current parent has as title, the Stat returns the not-a-directory       *)
(* error, which is not ObjectNotFound, and no object, whether or not a     *)
(* folder child has the title too; the prefix cache gets no entry for the  *)
(* element and the file cache none for the path.                           *)
(***************************************************************************)
\* the cache holds an entry for key that has not expired at time t
Held(cache, key, t) == key \in DOMAIN cache /\ ~IsExpired(cache[key], t)

\* The index of the first directory element, from idx on, that is not held by
\* the prefix cache cc and is the title of a non-folder under the parent the
\* walk has there; 0 when the walk stops earlier or meets none.
RECURSIVE FileElement(_, _, _, _, _, _)
FileElement(st, cc, t, subdirs, idx, parent) ==
    IF idx > Len(subdirs) THEN 0
    ELSE IF Held(cc, StrJoin(SubSeq(subdirs, 1, idx)), t)
    THEN FileElement(st, cc, t, subdirs, idx + 1,
                     cc[StrJoin(SubSeq(subdirs, 1, idx))].obj.id)
    ELSE IF LiveChildren(st, parent, subdirs[idx])
              # LiveFolders(st, parent, subdirs[idx])
    THEN idx
    ELSE IF Cardinality(LiveFolders(st, parent, subdirs[idx])) = 1
    THEN FileElement(st, cc, t, subdirs, idx + 1,
                     CHOOSE i \in LiveFolders(st, parent, subdirs[idx]) : TRUE)
    ELSE 0

\* the directory elements of the path of the last call
LastSubdirs ==
    IF splitPath(last.args[1]).dir = <<Sep>> THEN << >>
    ELSE StrSplit(splitPath(last.args[1]).dir)

\* the last call is a Stat that missed the file cache
StatWalked ==
    /\ last.op = "Stat"
    /\ ~Held(last.fc0, last.args[1], last.t0)
    /\ last.args[1] # P_root
    /\ ~IsBlank(last.args[1])

LastFileElement ==
    FileElement(last.pre, last.cc0, last.t0, LastSubdirs, 1, RootId)

C23_FileInPath ==
    (StatWalked /\ LastFileElement # 0) =>
        /\ last.err = "notdir"
        /\ ~IsObjectNotFound(last.err)
        /\ last.val = NilFile
        /\ StrJoin(SubSeq(LastSubdirs, 1, LastFileElement))
              \notin DOMAIN childcache
        /\ splitPath(last.args[1]).path \notin DOMAIN filecache

\* "a/b/c" where "a" comes from the prefix cache and "b" is a file and a folder
C23_Witness ==
    /\ StatWalked /\ LastFileElement = 2
    /\ Held(last.cc0, <<"a">>, last.t0)
    /\ LiveFolders(last.pre, last.cc0[<<"a">>].obj.id, "b") # {}
    /\ last.err = "notdir"

(***************************************************************************)
(* C25.  ListDir(path, query) lists the children of the object Stat gives  *)
(* for path, with "trashed = false" when the query is blank, and returns   *)
(* one fetched object per child of the listing, in the order of the        *)
(* listing; when the Stat, an invocation of the listing or the get of a    *)
(* child fails it returns an error and no object at all.                   *)
(***************************************************************************)
ListDirDone == last.op = "ListDir"

\* the query ListDir must use for the query it was given
UsedQuery(q) == IF q = BlankQuery THEN DefaultQuery ELSE q

\* what ListDir must return for the directory dirId
ExpectedList(st, dirId, q) ==
    [i \in 1..Len(MatchingFrom(st, 1, dirId, UsedQuery(q))) |->
        FileOf(st, MatchingFrom(st, 1, dirId, UsedQuery(q))[i].id)]

C25_ListDir ==
    ListDirDone =>
        /\ last.err = "" =>
              /\ Cardinality(AtPath(last.pre, last.args[1])) = 1
              /\ \A d \in AtPath(last.pre, last.args[1]) :
                    last.val = ExpectedList(last.pre, d, last.args[2])
              /\ FailedAt(last.log) = {}
        /\ last.err # "" => last.val = << >>
        /\ FailedAt(last.log) # {} => last.err # ""
        /\ AtPath(last.pre, last.args[1]) = {} => last.err # ""
        /\ store = last.pre

\* the blank query on a folder with a trashed child, and the fetch of the
\* second child failing
C25_WitnessBlank ==
    /\ ListDirDone /\ last.args = <<P_a, BlankQuery>> /\ last.err = ""
    /\ Len(last.val) = 2
    /\ \E i \in 1..Len(last.pre) : last.pre[i].trashed

C25_Witness ==
    /\ ListDirDone /\ last.args[1] = P_a
    /\ last.err # "" /\ last.val = << >>
    /\ Len(last.pre) = 5
    /\ Cardinality(OkOfKinds(last.log, {"get"})) >= 2
    /\ last.log[Len(last.log)].kind = "get"
    /\ ~last.log[Len(last.log)].ok

(***************************************************************************)
(* C24.  get, list, insert, patch and trash all go through the retrying    *)
(* invoker: when one invocation of one remote call answers 503 during      *)
(* Stat, Mkdir, Move, Insert, InsertInPlace, ListDir or SetModifiedDate,   *)
(* the call is invoked again and the operation returns what it returns     *)
(* when no invocation fails.                                               *)
(***************************************************************************)
\* the log without its failed invocations
Unfailed(log) == SelectSeq(log, LAMBDA e : e.ok)

\* the last operation again, from the state it started in, nothing failing
CleanRun ==
    Operation(MkState(last.pre, last.fc0, last.cc0, last.t0, NoFaults),
              last.op, last.args, TempSeq[nrand + 1 - last.draws])

SameOutcome(r) ==
    /\ last.err = r.err
    /\ last.val = r.val
    /\ store = r.s.store


OneTransient == last.op # "none" /\ Cardinality(FailedAt(last.log)) = 1

\* the failed invocation is followed at once by one more of the same call
Retried(log) ==
    \A i \in FailedAt(log) :
        /\ i < Len(log)
        /\ log[i + 1] = [log[i] EXCEPT !.ok = TRUE]

C24_TransientAbsorbed ==
    OneTransient => Retried(last.log) /\ SameOutcome(CleanRun)

\* the operation op has succeeded although one invocation of kind failed
AbsorbedIn(op, kind) ==
    /\ OneTransient /\ last.op = op /\ last.err = ""
    /\ \E i \in FailedAt(last.log) : last.log[i].kind = kind

(***************************************************************************)
(* C26.  After successful operations of one instance, nothing else         *)
(* changing the store, every unexpired entry of filecache and of           *)
(* childcache agrees with the store: the object held for the key P is not  *)
(* trashed and is the one object the store holds at P.                     *)
(***************************************************************************)
\* the non-trashed folders at the directory prefix drivePath
DirAtPath(st, drivePath) == {i \in AtPath(st, drivePath) : st[i].folder}

FileCacheCoherent(st, cache, t) ==
    \A key \in DOMAIN cache :
        ~IsExpired(cache[key], t) =>
            /\ ~st[cache[key].obj.id].trashed
            /\ AtPath(st, key) = {cache[key].obj.id}

ChildCacheCoherent(st, cache, t) ==
    \A key \in DOMAIN cache :
        ~IsExpired(cache[key], t) =>
            /\ ~st[cache[key].obj.id].trashed
            /\ DirAtPath(st, key) = {cache[key].obj.id}

\* the calls made so far, two at most, have all succeeded
AllSucceeded == nops <= 2 /\ last.err = "" /\ prev.err = ""

C26_CacheCoherent ==
    AllSucceeded => /\ FileCacheCoherent(store, filecache, now)
                    /\ ChildCacheCoherent(store, childcache, now)

(***************************************************************************)
(* C27.  A successful Move(src, dst) never trashes the object it moves:    *)
(* the object it returns is the one the store held at src and is not       *)
(* trashed in the store, also when src and dst are one canonical path.     *)
(***************************************************************************)
MoveSucceeded == last.op = "Move" /\ last.err = ""

C27_MoveKeepsObject ==
    MoveSucceeded =>
        /\ last.val.id \in AtPath(last.pre, last.args[1])
        /\ ~store[last.val.id].trashed

(***************************************************************************)
(* C28.  When a non-trashed object lies at the temporary path an           *)
(* Insert(dst) has chosen, the Insert that succeeds has trashed it, the    *)
(* object returned and found at dst is the one just uploaded, and no       *)
(* non-trashed object of the temporary name is left in the temporary       *)
(* folder.                                                                 *)
(***************************************************************************)
\* the temporary name of the last Insert
TmpFile == TempSeq[nrand]

\* the non-trashed objects of that name in the temporary folder
Leftovers(st) ==
    {i \in 1..Len(st) : IsAt(st, i, DRIVE_TMP_FOLDER, TmpFile)}

InsertOverLeftover ==
    /\ last.op = "Insert" /\ last.err = ""
    /\ nrand >= 1
    /\ Leftovers(last.pre) # {}

C28_LeftoverReplaced ==
    InsertOverLeftover =>
        /\ \A i \in Leftovers(last.pre) : store[i].trashed
        /\ last.val.id = UploadedId(last.log, last.hist)
        /\ AtPath(store, last.args[1]) = {UploadedId(last.log, last.hist)}
        /\ Leftovers(store) = {}

(***************************************************************************)
(* C29.  After a successful SetModifiedDate(P, t), a Stat of any path      *)
(* string that normalizes to the canonical path of P, that canonical path  *)
(* included, yields the modification date t truncated to whole seconds.    *)
(***************************************************************************)
SamePath(p, q) == splitPath(p).path = splitPath(q).path

StatAfterSet ==
    /\ DateWasSet(prev)
    /\ last.op = "Stat"
    /\ SamePath(last.args[1], prev.args[1])

C29_DateAtEveryForm ==
    StatAfterSet =>
        /\ last.err = ""
        /\ ~ModifiedDate(last.val).err
        /\ ModifiedDate(last.val).t = Truncate(prev.args[2])

(***************************************************************************)
(* C30.  A successful Stat(P) that is not answered from filecache, P       *)
(* having a last element, makes two list requests for every directory      *)
(* element of P that childcache does not hold unexpired, none for an       *)
(* element it holds, whose cached id is the parent of the next request,    *)
(* one list request for the last element, and then one get.                *)
(***************************************************************************)
ListEntry(parent) == [kind |-> "list", id |-> ResolveId(parent), ok |-> TRUE]

GetEntry(id) == [kind |-> "get", id |-> id, ok |-> TRUE]

\* the folder of the store that Stat finds for a directory element
FolderUnder(st, parent, elem) ==
    IF LiveFolders(st, ResolveId(parent), elem) = {} THEN RootAlias
    ELSE CHOOSE i \in LiveFolders(st, ResolveId(parent), elem) : TRUE

\* the parent Stat holds after the directory elements from idx on
RECURSIVE WalkParent(_, _, _, _, _, _)
WalkParent(st, cc, t, subdirs, idx, parent) ==
    IF idx > Len(subdirs) THEN parent
    ELSE IF Held(cc, StrJoin(SubSeq(subdirs, 1, idx)), t)
    THEN WalkParent(st, cc, t, subdirs, idx + 1,
                    cc[StrJoin(SubSeq(subdirs, 1, idx))].obj.id)
    ELSE WalkParent(st, cc, t, subdirs, idx + 1,
                    FolderUnder(st, parent, subdirs[idx]))

\* the list requests Stat makes for the directory elements from idx on
RECURSIVE WalkLists(_, _, _, _, _, _)
WalkLists(st, cc, t, subdirs, idx, parent) ==
    IF idx > Len(subdirs) THEN << >>
    ELSE IF Held(cc, StrJoin(SubSeq(subdirs, 1, idx)), t)
    THEN WalkLists(st, cc, t, subdirs, idx + 1,
                   cc[StrJoin(SubSeq(subdirs, 1, idx))].obj.id)
    ELSE <<ListEntry(parent), ListEntry(parent)>>
         \o WalkLists(st, cc, t, subdirs, idx + 1,
                      FolderUnder(st, parent, subdirs[idx]))

\* the directory elements of the last Stat that childcache did not hold
Uncached ==
    {idx \in 1..Len(LastSubdirs) :
        ~Held(last.cc0, StrJoin(SubSeq(LastSubdirs, 1, idx)), last.t0)}

StatMissed ==
    /\ last.op = "Stat" /\ last.err = ""
    /\ last.log # << >>
    /\ splitPath(last.args[1]).file # ""

C30_ListRequests ==
    StatMissed =>
        /\ CountKind(last.log, "list") = 2 * Cardinality(Uncached) + 1
        /\ CountKind(last.log, "get") = 1
        /\ last.log =
              WalkLists(last.pre, last.cc0, last.t0, LastSubdirs, 1, RootAlias)
              \o <<ListEntry(WalkParent(last.pre, last.cc0, last.t0,
                                        LastSubdirs, 1, RootAlias)),
                    GetEntry(last.val.id)>>

\* Stat("a/b/c") with "a" in childcache and "a/b" not: three list requests
C30_Witness ==
    /\ StatMissed
    /\ last.args[1] = P_abc
    /\ Held(last.cc0, P_a, last.t0)
    /\ Uncached = {2}
    /\ CountKind(last.log, "list") = 3

(***************************************************************************)
(* C31.  The lookup of the last element by Stat counts the non-trashed     *)
(* children of the final parent that bear its title, files and folders     *)
(* alike: none gives ObjectNotFound, one is the object returned, more than *)
(* one (a file and a folder of one title too) gives the duplicate error    *)
(* and no object.                                                          *)
(***************************************************************************)
\* the last Stat walked its directory elements and listed the last element
LeafListed ==
    /\ last.op = "Stat"
    /\ last.log # << >>
    /\ splitPath(last.args[1]).file # ""
    /\ CountKind(last.log, "list") = 2 * Cardinality(Uncached) + 1

\* the non-trashed children of the final parent with the title looked for
LeafChildren ==
    LiveChildren(last.pre,
                 ResolveId(WalkParent(last.pre, last.cc0, last.t0,
                                      LastSubdirs, 1, RootAlias)),
                 splitPath(last.args[1]).file)

C31_LeafLookup ==
    LeafListed =>
        /\ LeafChildren = {} => last.err = "notfound" /\ last.val = NilFile
        /\ Cardinality(LeafChildren) = 1 =>
              /\ last.err = ""
              /\ \A i \in LeafChildren : last.val = FileOf(last.pre, i)
        /\ Cardinality(LeafChildren) > 1 =>
              last.err = "dup" /\ last.val = NilFile

\* a file and a folder both titled "b" in the folder "a"
C31_Witness ==
    /\ LeafListed
    /\ last.args[1] = P_ab
    /\ \E i, j \in LeafChildren : last.pre[i].folder /\ ~last.pre[j].folder
    /\ last.err = "dup"

(***************************************************************************)
(* C32.  Mkdir(P) creates no missing directory above P: when the parent    *)
(* directory of P does not resolve, that is when the Stat of it that Mkdir *)
(* makes once P was not found returns an error, Mkdir returns that error,  *)
(* invokes no insert and adds no entry for P to filecache.                 *)
(***************************************************************************)
MkdirDone == last.op = "Mkdir"

MkdirKey == splitPath(last.args[1]).path

\* the entries of cache under key are those of cache0, or gone
NoEntryAdded(cache, cache0, key) ==
    key \in DOMAIN cache => key \in DOMAIN cache0 /\ cache[key] = cache0[key]

\* the Stat of the parent directory, made after the Stat of P returned
\* driveFile, returned par
ParentUnresolved(driveFile, par) ==
    IsObjectNotFound(driveFile.err) /\ par.err # ""

MkdirStopsAt(par) ==
    /\ last.err = par.err
    /\ last.val = NilFile
    /\ CountKind(last.log, "insert") = 0
    /\ store = last.pre
    /\ NoEntryAdded(filecache, last.fc0, MkdirKey)

NoIntermediateDirs(driveFile, par) ==
    ParentUnresolved(driveFile, par) => MkdirStopsAt(par)

\* the Stat that Mkdir begins with: the state and the failure planned are
\* those the Mkdir started with
InitialStat ==
    Stat(MkState(last.pre, last.fc0, last.cc0, last.t0, last.args[2]), MkdirKey)

\* the Stat of the parent directory of P that follows the Stat of P
ParentStat(driveFile) == Stat(driveFile.s, splitPath(last.args[1]).dir)

C32_NoIntermediateDirs ==
    (MkdirDone /\ MkdirKey # << >>) =>
        NoIntermediateDirs(InitialStat, ParentStat(InitialStat))

\* the parent directory is not in the store: both Stats report it
C32_Witness ==
    /\ MkdirDone
    /\ MkdirKey # << >>
    /\ ParentUnresolved(InitialStat, ParentStat(InitialStat))
    /\ ParentStat(InitialStat).err = "notfound"
    /\ last.err = "notfound"
    /\ last.fc0 # EmptyCache

(***************************************************************************)
(* C33.  Mkdir(P) inserts a folder only when its Stat of P has returned    *)
(* ObjectNotFound: any other error of that Stat (duplicate, not a          *)
(* directory, transport) is what Mkdir returns, with no insert; an object  *)
(* that Stat returns, folder or not, is what Mkdir returns, unchanged and  *)
(* with no insert.                                                         *)
(***************************************************************************)
NothingInserted == CountKind(last.log, "insert") = 0 /\ store = last.pre

MkdirFollows(driveFile) ==
    /\ (driveFile.err # "" /\ ~IsObjectNotFound(driveFile.err)) =>
            /\ last.err = driveFile.err
            /\ last.val = NilFile
            /\ NothingInserted
    /\ driveFile.err = "" =>
            /\ last.err = ""
            /\ last.val = driveFile.val
            /\ NothingInserted
    /\ CountKind(last.log, "insert") > 0 => IsObjectNotFound(driveFile.err)

C33_MkdirInsertsOnNotFound == MkdirDone => MkdirFollows(InitialStat)

\* Mkdir("a") where "a" is a file: the file is returned, nothing inserted
C33_Witness ==
    /\ MkdirDone
    /\ last.args[1] = P_a
    /\ Len(last.pre) = 2 /\ ~last.pre[2].folder
    /\ last.err = "" /\ last.val = FileOf(store, 2)
    /\ NothingInserted

(***************************************************************************)
(* C34.  Move changes the parents and the title of the object it moves in  *)
(* one patch: in the store as every remote call of a Move leaves it, also  *)
(* a Move that fails, every object has the parents and title it had before *)
(* the Move, or has the destination title with one of its parents replaced *)
(* by one folder; it never has both parents, neither, or the new parents   *)
(* with the old title.                                                     *)
(***************************************************************************)
\* the stores the last call went through, the one it left included
StoresOf(call) == {call.hist[k] : k \in 1..Len(call.hist)} \cup {store}

Unmoved(st, i) ==
    /\ st[i].parents = last.pre[i].parents
    /\ st[i].title = last.pre[i].title

FullyMoved(st, i, title) ==
    /\ st[i].title = title
    /\ \E sp \in last.pre[i].parents, dp \in 1..Len(st) :
          st[i].parents = (last.pre[i].parents \ {sp}) \cup {dp}

C34_MoveAtomic ==
    last.op = "Move" =>
        \A st \in StoresOf(last), i \in 1..Len(last.pre) :
            Unmoved(st, i) \/ FullyMoved(st, i, splitPath(last.args[2]).file)

(***************************************************************************)
(* C35.  Move, Mkdir and InsertInPlace take the root for the parent of a   *)
(* path of one element and go on: none of them fails with the blank-path   *)
(* error; a Move that succeeds leaves the object under the root when dst   *)
(* has one element, and no longer under the root when src has one element  *)
(* and dst has more; a folder made by Mkdir and a file put by              *)
(* InsertInPlace at such a path lie under the root.                        *)
(***************************************************************************)
OneElement(drivePath) == Len(Segments(drivePath)) = 1

\* the last call made the object it returns
Created == last.val.id > Len(last.pre)

C35_RootLevelPaths ==
    /\ (last.op \in {"Mkdir", "InsertInPlace"} /\ OneElement(last.args[1])) =>
          /\ last.err # "blank"
          /\ (last.err = "" /\ Created) =>
                store[last.val.id].parents = {RootId}
    /\ (last.op = "Move" /\ ~IsBlank(last.args[1]) /\ ~IsBlank(last.args[2])
           /\ (OneElement(last.args[1]) \/ OneElement(last.args[2]))) =>
          /\ last.err # "blank"
          /\ (last.err = "" /\ OneElement(last.args[2])) =>
                RootId \in store[last.val.id].parents
          /\ (last.err = "" /\ OneElement(last.args[1])
                /\ ~OneElement(last.args[2])) =>
                RootId \notin store[last.val.id].parents

\* Move("a/b", "a"): the file "b" is now "a" under the root
C35_Witness ==
    /\ last.op = "Move" /\ last.args = <<P_ab, P_a>> /\ last.err = ""
    /\ last.pre[last.val.id].parents = {2}
    /\ store[last.val.id].parents = {RootId}
    /\ store[last.val.id].title = "a"

(***************************************************************************)
(* C37.  The invoker sleeps between attempts only, 1000 ms times the       *)
(* number of the attempt that failed: a call whose three attempts all fail *)
(* with a 5xx status has slept 1 s and 2 s, and nothing after the third.   *)
(***************************************************************************)
AllAttemptsFail5xx ==
    /\ Returned
    /\ Len(retryIn) >= NUM_TRIES
    /\ \A i \in 1..NUM_TRIES : Is5xx(retryIn[i])

C37_SleepsBetweenAttempts ==
    AllAttemptsFail5xx =>
        retryOut.sleeps = [k \in 1..(NUM_TRIES - 1) |-> SLEEP_UNIT_MS * k]

(***************************************************************************)
(* C39.  A cache operation touches the key it is given in the cache it is  *)
(* given and nothing else: cacheAdd replaces the value of the key and      *)
(* stamps it with the current time; cacheGet changes no timestamp and no   *)
(* entry, except that it removes the key when its entry has expired;       *)
(* cacheDel of a key that is not held changes nothing; an operation on     *)
(* filecache leaves childcache as it was, and the reverse.                 *)
(***************************************************************************)
CacheOpDone == last.op \in {"cacheAdd", "cacheGet", "cacheDel"}

OtherCache(which) == IF which = "file" THEN "child" ELSE "file"

\* the two caches hold the same entries under every key but key
SameButKey(cache, cache0, key) ==
    /\ DOMAIN cache \ {key} = DOMAIN cache0 \ {key}
    /\ \A k \in DOMAIN cache \ {key} : cache[k] = cache0[k]

CacheOpFrame(cache, cache0, key) ==
    /\ SameButKey(cache, cache0, key)
    /\ last.op = "cacheAdd" =>
          /\ key \in DOMAIN cache
          /\ cache[key] = [obj |-> last.args[3], timestamp |-> last.t1]
    /\ last.op = "cacheGet" =>
          /\ key \in DOMAIN cache =>
                key \in DOMAIN cache0 /\ cache[key] = cache0[key]
          /\ (key \in DOMAIN cache0 /\ key \notin DOMAIN cache) =>
                IsExpired(cache0[key], last.t0)
    /\ last.op = "cacheDel" =>
          /\ key \notin DOMAIN cache
          /\ key \notin DOMAIN cache0 => cache = cache0

C39_CacheFrame ==
    CacheOpDone =>
        /\ CacheOpFrame(CacheOf(last.args[1]), last.pre[last.args[1]],
                        last.args[2])
        /\ CacheOf(OtherCache(last.args[1]))
              = last.pre[OtherCache(last.args[1])]

\* a value replaced by cacheAdd at a later time, another key held beside it
C39_Witness ==
    /\ last.op = "cacheAdd"
    /\ last.args[2] \in DOMAIN last.pre[last.args[1]]
    /\ last.pre[last.args[1]][last.args[2]].obj # last.args[3]
    /\ last.pre[last.args[1]][last.args[2]].timestamp < last.t1
    /\ DOMAIN last.pre[last.args[1]] # {last.args[2]}

(***************************************************************************)
(* C36.  GdriveChildrenList requests page after page until one comes back  *)
(* without a continuation token and returns the items of all the pages in  *)
(* page order: every match of the query under the parent, those of equal   *)
(* title on different pages included.  When the request for a page fails   *)
(* it returns an error and no item, whatever the earlier pages held.       *)
(***************************************************************************)
ChildrenListDone == last.op = "GdriveChildrenList"

AllMatches == MatchingFrom(last.pre, 1, last.args[1], last.args[2])

\* the pages a listing of n items comes in
PagesOf(n) == IF n = 0 THEN 1 ELSE (n + PageSize - 1) \div PageSize

PagesFetched == Cardinality({i \in DOMAIN last.log : last.log[i].ok})

C36_AllPagesOrNone ==
    ChildrenListDone =>
        /\ \A i \in DOMAIN last.log :
              last.log[i].kind = "list"
              /\ last.log[i].id = ResolveId(last.args[1])
        /\ last.err = "" =>
              /\ last.val = AllMatches
              /\ PagesFetched = PagesOf(Len(AllMatches))
              /\ last.log[Len(last.log)].ok
        /\ last.err # "" =>
              /\ last.val = << >>
              /\ ~last.log[Len(last.log)].ok
              /\ PagesFetched < PagesOf(Len(AllMatches))

\* a later page fails after pages with items have been fetched
C36_Witness ==
    /\ ChildrenListDone
    /\ last.err # ""
    /\ PagesFetched >= 1
    /\ Len(AllMatches) > PageSize

(***************************************************************************)
(* C38.  A Stat that returns an error, of whatever kind, adds no entry to  *)
(* filecache and alters none.  An entry is added or altered only by a Stat *)
(* whose final get succeeded, and it is the entry of the canonical path,   *)
(* holding the object returned and the time of the call; every Stat of a   *)
(* path other than "/" whose final get succeeded stores it.                *)
(***************************************************************************)
StatReturned == last.op = "Stat"

CanonicalPath == splitPath(last.args[1]).path

FinalGetSucceeded ==
    /\ last.err = ""
    /\ last.log # << >>
    /\ last.log[Len(last.log)].kind = "get"
    /\ last.log[Len(last.log)].ok

\* the keys whose entry is new or is not the one the call started with
StoredKeys ==
    {k \in DOMAIN filecache :
        k \notin DOMAIN last.fc0 \/ filecache[k] # last.fc0[k]}

C38_StatStoresOnSuccessOnly ==
    StatReturned =>
        /\ last.err # "" => StoredKeys = {}
        /\ \A k \in StoredKeys :
              /\ FinalGetSucceeded
              /\ k = CanonicalPath
              /\ filecache[k] = [obj |-> last.val, timestamp |-> last.t1]
        /\ (FinalGetSucceeded /\ last.args[1] # P_root) =>
              /\ CanonicalPath \in DOMAIN filecache
              /\ filecache[CanonicalPath]
                    = [obj |-> last.val, timestamp |-> last.t1]

\* the final get of a Stat fails while the cache holds another path
C38_Witness ==
    /\ StatReturned
    /\ last.err = "remote"
    /\ last.log # << >>
    /\ last.log[Len(last.log)].kind = "get"
    /\ last.fc0 # EmptyCache
    /\ filecache = last.fc0
=============================================================================
